---- MODULE Spec2Model ----
(***************************************************************************)
(* NanoTrans: the global-hotkey manager (src/src/hotkey.rs) and the        *)
(* interactive hotkey capture (src/src/input.rs, driven by the timer       *)
(* callback of src/src/main.rs).                                           *)
(*                                                                         *)
(* A Rust string that is split on '+' is a non-empty sequence of '+'-free  *)
(* tokens: "Ctrl+Q" is <<"Ctrl", "Q">> and the empty string is <<"">>.     *)
(* Option::None of such a string is the empty sequence.                    *)
(***************************************************************************)
EXTENDS Integers, Sequences, FiniteSets, TLC

VARIABLES
    \* hotkey.rs: HotkeyManager (not macos) and the platform behind it
    mgr,                  \* "none" | "alive" | "macos" (the manager of the macos build)
                          \* | "dropped" | "exited" (gone with the process, never dropped)
    translate_hotkey,     \* HotkeyManager.translate_hotkey
    translate_hotkey_id,  \* HotkeyManager.translate_hotkey_id
    current_hotkey,       \* HotkeyManager.current_hotkey
    registered,           \* bindings this manager holds at the platform
    pc,                   \* position inside update_hotkey
    new_hotkey,           \* update_hotkey: local new_hotkey
    normalized,           \* update_hotkey: local normalized
    ret,                  \* what the last call returned
    calls,                \* platform calls of the running / last update
    entry,                \* the manager as it was when the last failed update was entered
    \* input.rs: the capture statics, and main.rs: their consumer
    platform,             \* "windows" | "macos": the cfg(target_os) of the build
    HOTKEY_CAPTURE_ACTIVE,
    CAPTURED_HOTKEY,
    HOTKEY_CAPTURE_CTRL,
    HOTKEY_CAPTURE_ALT,
    HOTKEY_CAPTURE_SHIFT,
    HOTKEY_CAPTURE_WIN,
    CTRL_PRESSED,         \* platform_impl (windows): the hook's view of the Ctrl key
    CTRL_V_DETECTED,      \* the paste latch
    hotkey_recording,     \* SettingsWindow.hotkey_recording
    phys,                 \* the keys that are physically down
    ev,                   \* the raw key event of the last step, if it was one
    session_mods,         \* modifiers pressed in the running session and still down
    received,             \* what apply_captured_hotkey was handed in the session
    key_seen,             \* a raw key event was observed since the last start or stop
    stopped,              \* stop_hotkey_capture has returned and no start followed
    chord_unread,         \* V went down with the paste modifier held since the last read
    \* input.rs: one key-event callback and one start_hotkey_capture, statement by statement
    cb_pc,                \* position of the pump thread inside its callback
    cb_out,               \* the outcome the running callback is about to store
    ui_pc,                \* position of the UI thread inside start_hotkey_capture
    \* input.rs: start_keyboard_monitor and the fault channel
    mon_pc,               \* position of each pump thread
    mon_msg,              \* the message a failing pump thread reports
    MONITOR_ERROR_REPORTED,
    MONITOR_ERROR_CHANNEL,
    faults_sent,          \* every message ever sent on MONITOR_ERROR_CHANNEL
    alerts,               \* the messages the timer callback has received
    \* the parsers, as pure functions of one mnemonic
    parse_in,             \* the mnemonic
    parse_out,            \* parse_hotkey(parse_in), once called
    norm_out,             \* normalize_hotkey_string(parse_in), once called
    \* main.rs: the process, its configuration and the hotkey events
    proc,                 \* "loading" | "running" | "failed" | "returned" | "exited"
    config_hotkey,        \* config.hotkey, in memory
    saved_hotkey,         \* the hotkey of the configuration file
    first_failed,         \* the first HotkeyManager::new of main returned an error
    ACTIVE_HOTKEY,        \* input.rs (macos): the normalized active hotkey
    HOTKEY_EVENT_CHANNEL, \* the hotkey events not yet received by the timer callback
    hotkey_seen,          \* what the last timer callback received from that channel
    win_hotkey,           \* SettingsWindow.hotkey, None while there is no settings window
    \* caret.rs: the locator, as functions of their arguments and of what the OS answers
    popup_in,             \* the arguments of calculate_popup_position and the screen size
    popup_out,            \* what calculate_popup_position returned, once called
    caret_env,            \* what the OS answers to the queries of get_caret_position
    caret_out             \* what get_caret_position returned, once called

hkVars == <<mgr, translate_hotkey, translate_hotkey_id, current_hotkey,
            registered, pc, new_hotkey, normalized, ret, calls, entry>>

capVars == <<platform, HOTKEY_CAPTURE_ACTIVE, CAPTURED_HOTKEY, HOTKEY_CAPTURE_CTRL,
             HOTKEY_CAPTURE_ALT, HOTKEY_CAPTURE_SHIFT, HOTKEY_CAPTURE_WIN,
             CTRL_PRESSED, CTRL_V_DETECTED, hotkey_recording, phys, ev,
             session_mods, received, key_seen, stopped, chord_unread>>

raceVars == <<cb_pc, cb_out, ui_pc>>

monVars == <<mon_pc, mon_msg, MONITOR_ERROR_REPORTED, MONITOR_ERROR_CHANNEL,
             faults_sent, alerts>>

parseVars == <<parse_in, parse_out, norm_out>>

mainVars == <<proc, config_hotkey, saved_hotkey, first_failed, ACTIVE_HOTKEY,
              HOTKEY_EVENT_CHANNEL, hotkey_seen, win_hotkey>>

locVars == <<popup_in, popup_out, caret_env, caret_out>>

vars == <<hkVars, capVars, raceVars, monVars, parseVars, mainVars, locVars>>

\* everything but the manager, and everything but the capture statics
notHkVars == <<capVars, raceVars, monVars, parseVars, mainVars, locVars>>
notCapVars == <<hkVars, raceVars, monVars, parseVars, mainVars, locVars>>

-----------------------------------------------------------------------------
(* Bounds *)

\* longest mnemonic, in '+'-separated tokens, handed to new / update_hotkey
MaxParts == 3

\* most keys physically down at once
MaxHeld == 2

\* most calls of start_keyboard_monitor
MaxMonitorStarts == 2

\* longest mnemonic, in '+'-separated tokens, handed to the parsers
MaxTokens == 3

\* most hotkey events waiting in the channel
MaxQueued == 2

\* most hotkey events the tap callback leaves unread in the channel
MaxTapQueued == 1

\* the larger of the two screen edges of the grid of popup placements
MaxScreen == 60

-----------------------------------------------------------------------------
(* Strings *)

None == <<>>

\* no raw key event
NoEv == [kind |-> "none", key |-> ""]

\* the tokens the mnemonics handed to the manager are made of: a modifier in two
\* spellings, a second modifier and a key, each with an upper-case letter
Tokens == {"Ctrl", "Control", "Shift", "Q"}

\* str::to_lowercase on one token
to_lowercase(t) ==
    CASE t = "Ctrl"    -> "ctrl"
      [] t = "Control" -> "control"
      [] t = "Shift"   -> "shift"
      [] t = "Alt"     -> "alt"
      [] t = "Option"  -> "option"
      [] t = "Win"     -> "win"
      [] t = "Cmd"     -> "cmd"
      [] t = "Q"       -> "q"
      [] t = " Q"      -> " q"
      [] t = "T"       -> "t"
      [] t = "Tab"     -> "tab"
      [] t = "Escape"  -> "escape"
      [] t = "Foo"     -> "foo"
      [] t = "Meta"    -> "meta"
      [] t = "Banana"  -> "banana"
      [] t = "Insert"  -> "insert"
      [] t = "Spacebar" -> "spacebar"
      [] t = "V"       -> "v"
      [] t = "VKBD"    -> "vkbd"
      [] t = "VKFF"    -> "vkff"
      [] OTHER         -> t

\* str::trim on one token
trim(t) ==
    CASE t = " Q" -> "Q"
      [] t = " q" -> "q"
      [] t = " "  -> ""
      [] OTHER    -> t

\* str::to_lowercase on a whole string: '+' has no case
str_to_lowercase(s) == [i \in 1..Len(s) |-> to_lowercase(s[i])]

\* the strings of at most MaxParts tokens
Mnemonics == UNION {[1..n -> Tokens] : n \in 1..MaxParts}

-----------------------------------------------------------------------------
(* hotkey.rs: parse_hotkey, parse_key_code *)

NoCode == "NoCode"
NoHotkey == [mods |-> {}, key |-> NoCode]

\* parse_key_code: the key-name table, on a lowercased name
parse_key_code(key) ==
    LET k == to_lowercase(key) IN
    CASE k = "q"                    -> [ok |-> TRUE, code |-> "KeyQ"]
      [] k = "t"                    -> [ok |-> TRUE, code |-> "KeyT"]
      [] k = "tab"                  -> [ok |-> TRUE, code |-> "Tab"]
      [] k \in {"escape", "esc"}    -> [ok |-> TRUE, code |-> "Escape"]
      [] k \in {"insert", "ins"}    -> [ok |-> TRUE, code |-> "Insert"]
      [] k = "space"                -> [ok |-> TRUE, code |-> "Space"]
      [] k = "v"                    -> [ok |-> TRUE, code |-> "KeyV"]
      [] OTHER                      -> [ok |-> FALSE, code |-> NoCode]

\* the loop of parse_hotkey over parts[i..]: a modifier token sets its bit, any
\* other token goes through parse_key_code and overwrites key_code
RECURSIVE parse_parts(_, _, _, _)
parse_parts(parts, i, modifiers, key_code) ==
    IF i > Len(parts) THEN [err |-> "", modifiers |-> modifiers, key_code |-> key_code]
    ELSE LET part == to_lowercase(trim(parts[i])) IN
         CASE part \in {"ctrl", "control"} ->
                  parse_parts(parts, i + 1, modifiers \cup {"CONTROL"}, key_code)
           [] part \in {"alt", "option", "opt"} ->
                  parse_parts(parts, i + 1, modifiers \cup {"ALT"}, key_code)
           [] part = "shift" ->
                  parse_parts(parts, i + 1, modifiers \cup {"SHIFT"}, key_code)
           [] part \in {"win", "super", "meta", "cmd", "command"} ->
                  parse_parts(parts, i + 1, modifiers \cup {"META"}, key_code)
           [] OTHER ->
                  LET c == parse_key_code(part) IN
                  IF c.ok THEN parse_parts(parts, i + 1, modifiers, c.code)
                  ELSE [err |-> "UnknownKey", modifiers |-> modifiers, key_code |-> key_code]

\* parse_hotkey without the test of lines 137-139 for an empty modifier set
parse_hotkey_modifier_unchecked(hotkey_str) ==
    LET r == parse_parts(hotkey_str, 1, {}, NoCode) IN
    IF Len(hotkey_str) = 0 THEN [ok |-> FALSE, err |-> "Empty", hotkey |-> NoHotkey]
    ELSE IF r.err # "" THEN [ok |-> FALSE, err |-> r.err, hotkey |-> NoHotkey]
    ELSE IF r.key_code = NoCode THEN [ok |-> FALSE, err |-> "NoKey", hotkey |-> NoHotkey]
    ELSE [ok |-> TRUE, err |-> "", hotkey |-> [mods |-> r.modifiers, key |-> r.key_code]]

\* parse_hotkey: split on '+', trim, the loop, and the tests behind it
parse_hotkey(hotkey_str) ==
    LET r == parse_parts(hotkey_str, 1, {}, NoCode) IN
    IF Len(hotkey_str) = 0 THEN [ok |-> FALSE, err |-> "Empty", hotkey |-> NoHotkey]
    ELSE IF r.err # "" THEN [ok |-> FALSE, err |-> r.err, hotkey |-> NoHotkey]
    ELSE IF r.modifiers = {} THEN [ok |-> FALSE, err |-> "NoModifier", hotkey |-> NoHotkey]
    ELSE IF r.key_code = NoCode THEN [ok |-> FALSE, err |-> "NoKey", hotkey |-> NoHotkey]
    ELSE [ok |-> TRUE, err |-> "", hotkey |-> [mods |-> r.modifiers, key |-> r.key_code]]

\* HotKey::id(): the modifier bits above the key code
ModBit(m) == CASE m = "ALT" -> 1 [] m = "CONTROL" -> 2 [] m = "META" -> 4 [] m = "SHIFT" -> 8
CodeNum(c) == CASE c = "KeyQ" -> 1 [] c = "KeyT" -> 2 [] c = "Tab" -> 3 [] c = "Escape" -> 4
                [] c = "Insert" -> 5 [] c = "Space" -> 6 [] c = "KeyV" -> 7 [] OTHER -> 0
RECURSIVE SumBits(_)
SumBits(ms) == IF ms = {} THEN 0
               ELSE LET m == CHOOSE x \in ms : TRUE IN ModBit(m) + SumBits(ms \ {m})
hotkey_id(h) == SumBits(h.mods) * 65536 + CodeNum(h.key)

-----------------------------------------------------------------------------
(* hotkey.rs: HotkeyManager *)

NoEntry == [hotkey |-> NoHotkey, id |-> 0, current |-> None, registered |-> {}]
Snapshot == [hotkey |-> translate_hotkey, id |-> translate_hotkey_id,
             current |-> current_hotkey, registered |-> registered]

\* GlobalHotKeyManager::register: refused for a binding that is already held,
\* by this manager or (the platform's choice) by anyone else
RegisterOutcomes(h) == IF h \in registered THEN {FALSE} ELSE BOOLEAN

\* HotkeyManager::new
HotkeyManager_new(hotkey_str) ==
    /\ platform # "macos"
    /\ mgr = "none"
    /\ LET p == parse_hotkey(hotkey_str) IN
       \E manager_ok \in BOOLEAN :
         IF ~manager_ok THEN
            /\ ret' = "err_manager"
            /\ UNCHANGED <<mgr, translate_hotkey, translate_hotkey_id, current_hotkey, registered>>
         ELSE IF ~p.ok THEN
            /\ ret' = "err_parse"
            /\ UNCHANGED <<mgr, translate_hotkey, translate_hotkey_id, current_hotkey, registered>>
         ELSE \E reg_ok \in RegisterOutcomes(p.hotkey) :
            IF ~reg_ok THEN
               /\ ret' = "err_register"
               /\ UNCHANGED <<mgr, translate_hotkey, translate_hotkey_id, current_hotkey, registered>>
            ELSE
               /\ registered' = registered \cup {p.hotkey}
               /\ mgr' = "alive"
               /\ translate_hotkey' = p.hotkey
               /\ translate_hotkey_id' = hotkey_id(p.hotkey)
               /\ current_hotkey' = str_to_lowercase(hotkey_str)
               /\ ret' = "ok"
    /\ UNCHANGED <<pc, new_hotkey, normalized, calls, entry>>
    /\ UNCHANGED notHkVars

\* HotkeyManager::is_translate_hotkey
is_translate_hotkey(event) == event.id = translate_hotkey_id

\* HotkeyManager::is_translate_hotkey (macos): true
is_translate_hotkey_macos(event) == TRUE

\* the is_translate_hotkey of the build
is_match(event) ==
    IF platform = "macos" THEN is_translate_hotkey_macos(event) ELSE is_translate_hotkey(event)

\* the timer callback received no hotkey event
NoHotkeyEvent == [got |-> FALSE]

\* update_hotkey, lines 87-93: the early return and the parse
update_hotkey_begin(hotkey_str) ==
    /\ mgr = "alive" /\ pc = "idle"
    /\ calls' = <<>>
    /\ LET n == str_to_lowercase(hotkey_str)
           p == parse_hotkey(hotkey_str) IN
       IF n = current_hotkey THEN
          /\ ret' = "ok"
          /\ entry' = NoEntry
          /\ UNCHANGED <<pc, new_hotkey, normalized>>
       ELSE IF ~p.ok THEN
          /\ ret' = "err_parse"
          /\ entry' = Snapshot
          /\ UNCHANGED <<pc, new_hotkey, normalized>>
       ELSE
          /\ pc' = "register"
          /\ new_hotkey' = p.hotkey
          /\ normalized' = n
          /\ ret' = "pending"
          /\ entry' = Snapshot
    /\ UNCHANGED <<mgr, translate_hotkey, translate_hotkey_id, current_hotkey, registered>>
    /\ UNCHANGED notHkVars

\* update_hotkey with the two platform calls swapped: the old binding is released
\* before the new one is asked for
update_hotkey_register_release_first ==
    /\ pc = "register"
    /\ calls' = Append(calls, "register")
    /\ \E reg_ok \in RegisterOutcomes(new_hotkey) :
         IF reg_ok THEN
            /\ registered' = (registered \ {translate_hotkey}) \cup {new_hotkey}
            /\ pc' = "unregister"
            /\ UNCHANGED <<ret, new_hotkey, normalized>>
         ELSE
            /\ ret' = "err_register"
            /\ pc' = "idle"
            /\ new_hotkey' = NoHotkey
            /\ normalized' = None
            /\ registered' = registered \ {translate_hotkey}
    /\ UNCHANGED <<mgr, translate_hotkey, translate_hotkey_id, current_hotkey, entry>>
    /\ UNCHANGED notHkVars

\* update_hotkey with the result of register dropped instead of propagated
update_hotkey_register_ignore_error ==
    /\ pc = "register"
    /\ calls' = Append(calls, "register")
    /\ \E reg_ok \in RegisterOutcomes(new_hotkey) :
         registered' = IF reg_ok THEN registered \cup {new_hotkey} ELSE registered
    /\ pc' = "unregister"
    /\ UNCHANGED <<ret, new_hotkey, normalized>>
    /\ UNCHANGED <<mgr, translate_hotkey, translate_hotkey_id, current_hotkey, entry>>
    /\ UNCHANGED notHkVars

\* update_hotkey, line 95: self.manager.register(new_hotkey)?
update_hotkey_register ==
    /\ pc = "register"
    /\ calls' = Append(calls, "register")
    /\ \E reg_ok \in RegisterOutcomes(new_hotkey) :
         IF reg_ok THEN
            /\ registered' = registered \cup {new_hotkey}
            /\ pc' = "unregister"
            /\ UNCHANGED <<ret, new_hotkey, normalized>>
         ELSE
            /\ ret' = "err_register"
            /\ pc' = "idle"
            /\ new_hotkey' = NoHotkey
            /\ normalized' = None
            /\ UNCHANGED registered
    /\ UNCHANGED <<mgr, translate_hotkey, translate_hotkey_id, current_hotkey, entry>>
    /\ UNCHANGED notHkVars

\* update_hotkey, lines 97-103: self.manager.unregister(self.translate_hotkey)?
\* and the assignment of the three fields
update_hotkey_unregister ==
    /\ pc = "unregister"
    /\ calls' = Append(calls, "unregister")
    /\ pc' = "idle"
    /\ new_hotkey' = NoHotkey
    /\ normalized' = None
    /\ \E unreg_ok \in BOOLEAN :
         IF unreg_ok THEN
            /\ registered' = registered \ {translate_hotkey}
            /\ translate_hotkey_id' = hotkey_id(new_hotkey)
            /\ translate_hotkey' = new_hotkey
            /\ current_hotkey' = normalized
            /\ ret' = "ok"
            /\ entry' = NoEntry
         ELSE
            /\ ret' = "err_unregister"
            /\ UNCHANGED <<registered, translate_hotkey, translate_hotkey_id, current_hotkey, entry>>
    /\ UNCHANGED <<mgr, notHkVars>>

\* impl Drop for HotkeyManager
HotkeyManager_drop ==
    /\ mgr = "alive" /\ pc = "idle"
    /\ mgr' = "dropped"
    /\ \E unreg_ok \in BOOLEAN :
         registered' = IF unreg_ok THEN registered \ {translate_hotkey} ELSE registered
    /\ ret' = "dropped"
    /\ UNCHANGED <<translate_hotkey, translate_hotkey_id, current_hotkey,
                   pc, new_hotkey, normalized, calls, entry>>
    /\ UNCHANGED notHkVars

\* the pump threads start_keyboard_monitor may be asked for
MonitorThreads == 1..MaxMonitorStarts

\* the parsers have not been called
NotCalled == [called |-> FALSE]

\* the process after the statics are initialised and before main has built the
\* manager or started the keyboard monitor; no mnemonic is under test
InitProgram ==
    /\ mgr = "none"
    /\ translate_hotkey = NoHotkey
    /\ translate_hotkey_id = 0
    /\ current_hotkey = None
    /\ registered = {}
    /\ pc = "idle"
    /\ new_hotkey = NoHotkey
    /\ normalized = None
    /\ ret = "none"
    /\ calls = <<>>
    /\ entry = NoEntry
    /\ platform \in {"windows", "macos"}
    /\ HOTKEY_CAPTURE_ACTIVE = FALSE
    /\ CAPTURED_HOTKEY = None
    /\ HOTKEY_CAPTURE_CTRL = FALSE
    /\ HOTKEY_CAPTURE_ALT = FALSE
    /\ HOTKEY_CAPTURE_SHIFT = FALSE
    /\ HOTKEY_CAPTURE_WIN = FALSE
    /\ CTRL_PRESSED = FALSE
    /\ CTRL_V_DETECTED = FALSE
    /\ hotkey_recording = FALSE
    /\ phys = {}
    /\ ev = NoEv
    /\ session_mods = {}
    /\ received = <<>>
    /\ key_seen = FALSE
    /\ stopped = FALSE
    /\ chord_unread = FALSE
    /\ cb_pc = "idle"
    /\ cb_out = None
    /\ ui_pc = "idle"
    /\ mon_pc = [t \in MonitorThreads |-> "unspawned"]
    /\ mon_msg = [t \in MonitorThreads |-> ""]
    /\ MONITOR_ERROR_REPORTED = FALSE
    /\ MONITOR_ERROR_CHANNEL = <<>>
    /\ faults_sent = <<>>
    /\ alerts = <<>>
    /\ parse_out = NotCalled
    /\ norm_out = NotCalled
    /\ proc = "loading"
    /\ first_failed = FALSE
    /\ ACTIVE_HOTKEY = None
    /\ HOTKEY_EVENT_CHANNEL = <<>>
    /\ hotkey_seen = NoHotkeyEvent
    /\ win_hotkey = None
    /\ popup_out = NotCalled
    /\ caret_out = NotCalled

\* hotkey::DEFAULT_HOTKEY, which is also the hotkey of Config::default()
DEFAULT_HOTKEY == <<"Alt", "Q">>

\* the configuration is the default one
InitConfig ==
    /\ config_hotkey = DEFAULT_HOTKEY
    /\ saved_hotkey = DEFAULT_HOTKEY

\* the locator is not under test
InitLocator ==
    /\ popup_in = None
    /\ caret_env = None

Init ==
    /\ InitProgram
    /\ InitConfig
    /\ InitLocator
    /\ parse_in = None

HotkeyNext ==
    \/ \E m \in Mnemonics : HotkeyManager_new(m)
    \/ \E m \in Mnemonics : update_hotkey_begin(m)
    \/ update_hotkey_register
    \/ update_hotkey_unregister
    \/ HotkeyManager_drop

\* the manager of the builds that are not macos, and the platform behind it
SpecHotkey == Init /\ [][HotkeyNext]_vars

-----------------------------------------------------------------------------
(* input.rs: the keys of the model *)

Mods == {"Ctrl", "Alt", "Shift", "Meta"}
\* Minus has no entry in either name table; Unmapped has none and no scan code
MainKeys == {"Q", "Tab", "Escape", "Minus", "Unmapped"}
Keys == Mods \cup MainKeys
\* the keys of the paste chords, with a modifier that is not part of one and Escape
PasteKeys == {"Ctrl", "Meta", "Shift", "V", "Escape"}

\* KBDLLHOOKSTRUCT.vkCode of each key (the left-hand modifier keys)
Vk(k) ==
    CASE k = "Ctrl" -> 162 [] k = "Alt" -> 164 [] k = "Shift" -> 160 [] k = "Meta" -> 91
      [] k = "Q" -> 81 [] k = "V" -> 86 [] k = "Tab" -> 9 [] k = "Escape" -> 27
      [] k = "Minus" -> 189 [] k = "Unmapped" -> 255

\* KEYBOARD_EVENT_KEYCODE of each key
Keycode(k) ==
    CASE k = "Ctrl" -> 59 [] k = "Alt" -> 58 [] k = "Shift" -> 56 [] k = "Meta" -> 55
      [] k = "Q" -> 12 [] k = "V" -> 9 [] k = "Tab" -> 48 [] k = "Escape" -> 53
      [] k = "Minus" -> 27 [] k = "Unmapped" -> 10

\* Option<String> of a key name
SomeName(n) == [some |-> TRUE, val |-> n]
NoName == [some |-> FALSE, val |-> ""]

\* what GetKeyNameTextW may write for a key that has a scan code: a text, or nothing
OsTexts == {"-", ""}

\* the statics of input.rs as one value
Statics == [active |-> HOTKEY_CAPTURE_ACTIVE, captured |-> CAPTURED_HOTKEY,
            ctrl |-> HOTKEY_CAPTURE_CTRL, alt |-> HOTKEY_CAPTURE_ALT,
            shift |-> HOTKEY_CAPTURE_SHIFT, win |-> HOTKEY_CAPTURE_WIN,
            ctrl_pressed |-> CTRL_PRESSED, ctrl_v |-> CTRL_V_DETECTED]

SetStatics(st) ==
    /\ HOTKEY_CAPTURE_ACTIVE' = st.active
    /\ CAPTURED_HOTKEY' = st.captured
    /\ HOTKEY_CAPTURE_CTRL' = st.ctrl
    /\ HOTKEY_CAPTURE_ALT' = st.alt
    /\ HOTKEY_CAPTURE_SHIFT' = st.shift
    /\ HOTKEY_CAPTURE_WIN' = st.win
    /\ CTRL_PRESSED' = st.ctrl_pressed
    /\ CTRL_V_DETECTED' = st.ctrl_v

\* the string "<m1>+<m2>+...+<name>" that the capture paths push together
PushStr(flag, tok) == IF flag THEN <<tok>> ELSE <<>>

-----------------------------------------------------------------------------
(* input.rs: platform_impl (windows) *)

\* windows is_modifier_key
is_modifier_key(vk) == vk \in {16, 17, 18, 160, 161, 162, 163, 164, 165, 91, 92}

\* common_key_name, for the keys of the model
common_key_name(vk) ==
    CASE vk = 81 -> SomeName("Q")
      [] vk = 86 -> SomeName("V")
      [] vk = 9  -> SomeName("Tab")
      [] OTHER   -> NoName

\* MapVirtualKeyW(vk, MAPVK_VK_TO_VSC): 0 when the key has no scan code
MapVirtualKeyW(vk) ==
    CASE vk = 255 -> 0 [] vk = 189 -> 12 [] vk = 81 -> 16 [] vk = 86 -> 47 [] vk = 9 -> 15
      [] vk = 27 -> 1 [] OTHER -> 29

\* format!("VK{:02X}", vk), for the keys of the model
VkPlaceholder(vk) == CASE vk = 189 -> "VKBD" [] vk = 255 -> "VKFF" [] vk = 27 -> "VK1B"
                       [] OTHER -> "VK00"

\* vk_to_name; os_text is what GetKeyNameTextW wrote, trimmed
vk_to_name(vk, os_text) ==
    IF common_key_name(vk).some THEN common_key_name(vk)
    ELSE IF MapVirtualKeyW(vk) = 0 THEN NoName
    ELSE IF os_text # "" THEN SomeName(os_text)
    ELSE SomeName(VkPlaceholder(vk))

\* keyboard_hook_proc, lines 315-337: the held bits follow the modifier keys
hook_modifier_bits(st, vk_code, is_keydown) ==
    CASE vk_code \in {16, 160, 161} -> [st EXCEPT !.shift = is_keydown]
      [] vk_code \in {17, 162, 163} -> [st EXCEPT !.ctrl = is_keydown]
      [] vk_code \in {18, 164, 165} -> [st EXCEPT !.alt = is_keydown]
      [] vk_code \in {91, 92}       -> [st EXCEPT !.win = is_keydown]
      [] OTHER                      -> st

\* the mnemonic of lines 357-364
hook_hotkey(st, name) ==
    PushStr(st.ctrl, "Ctrl") \o PushStr(st.alt, "Alt") \o PushStr(st.shift, "Shift")
        \o PushStr(st.win, "Win") \o <<name>>

\* keyboard_hook_proc, lines 374-382: CTRL_PRESSED follows the Ctrl key, and the
\* press of V while it is set raises the paste latch
hook_paste(st, vk_code, is_keydown) ==
    LET s2 == IF vk_code \in {17, 162, 163} THEN [st EXCEPT !.ctrl_pressed = is_keydown]
              ELSE st
    IN IF is_keydown /\ vk_code = 86 /\ s2.ctrl_pressed THEN [s2 EXCEPT !.ctrl_v = TRUE]
       ELSE s2

\* keyboard_hook_proc with the Escape test moved behind the modifier test, so that
\* Escape cancels only when no modifier is held
keyboard_hook_proc_escape_last(st, vk_code, is_keydown, os_text) ==
    IF ~st.active THEN hook_paste(st, vk_code, is_keydown)
    ELSE LET s1 == hook_modifier_bits(st, vk_code, is_keydown)
             name == IF vk_code = 27 THEN SomeName("Escape") ELSE vk_to_name(vk_code, os_text) IN
         IF is_keydown /\ ~is_modifier_key(vk_code) THEN
            IF vk_code = 9 THEN s1
            ELSE IF s1.ctrl \/ s1.alt \/ s1.shift \/ s1.win THEN
               IF name.some
               THEN [s1 EXCEPT !.captured = hook_hotkey(s1, name.val), !.active = FALSE]
               ELSE hook_paste(s1, vk_code, is_keydown)
            ELSE IF vk_code = 27 THEN [s1 EXCEPT !.active = FALSE, !.captured = <<"">>]
            ELSE hook_paste(s1, vk_code, is_keydown)
         ELSE hook_paste(s1, vk_code, is_keydown)

\* keyboard_hook_proc, for one key-down (is_keydown) or key-up message: the capture
\* part of lines 314-372, which returns from the hook when it cancels, skips Tab
\* or captures, and behind it the paste part
keyboard_hook_proc(st, vk_code, is_keydown, os_text) ==
    IF ~st.active THEN hook_paste(st, vk_code, is_keydown)
    ELSE LET s1 == hook_modifier_bits(st, vk_code, is_keydown)
             name == vk_to_name(vk_code, os_text) IN
         IF is_keydown /\ vk_code = 27 THEN
            [s1 EXCEPT !.active = FALSE, !.captured = <<"">>]
         ELSE IF is_keydown /\ ~is_modifier_key(vk_code) THEN
            IF vk_code = 9 THEN s1
            ELSE IF (s1.ctrl \/ s1.alt \/ s1.shift \/ s1.win) /\ name.some
            THEN [s1 EXCEPT !.captured = hook_hotkey(s1, name.val), !.active = FALSE]
            ELSE hook_paste(s1, vk_code, is_keydown)
         ELSE hook_paste(s1, vk_code, is_keydown)

\* GetAsyncKeyState: the virtual keys that read as pressed, a modifier also under
\* its two-sided code
PressedVks(down) ==
    {Vk(k) : k \in down}
      \cup (IF "Ctrl" \in down THEN {17} ELSE {})
      \cup (IF "Alt" \in down THEN {18} ELSE {})
      \cup (IF "Shift" \in down THEN {16} ELSE {})

is_pressed(vk, down) == vk \in PressedVks(down)

\* HOTKEY_CANDIDATES: the keys of the model that are in the list, in its order
HOTKEY_CANDIDATES == <<81, 86, 9>>

\* poll_hotkey_capture (windows): what it returns and the statics it leaves
poll_hotkey_capture_windows(st, down) ==
    LET has_ctrl  == is_pressed(17, down) \/ is_pressed(162, down) \/ is_pressed(163, down)
        has_alt   == is_pressed(18, down) \/ is_pressed(164, down) \/ is_pressed(165, down)
        has_shift == is_pressed(16, down) \/ is_pressed(160, down) \/ is_pressed(161, down)
        has_win   == is_pressed(91, down) \/ is_pressed(92, down)
        hits == {i \in 1..Len(HOTKEY_CANDIDATES) :
                    is_pressed(HOTKEY_CANDIDATES[i], down)
                      /\ ~is_modifier_key(HOTKEY_CANDIDATES[i])}
    IN
    IF ~st.active THEN [ret |-> None, st |-> st]
    ELSE IF ~(has_ctrl \/ has_alt \/ has_shift \/ has_win) THEN [ret |-> None, st |-> st]
    ELSE IF hits = {} THEN [ret |-> None, st |-> st]
    ELSE LET i == CHOOSE j \in hits : \A l \in hits : j <= l
             vk == HOTKEY_CANDIDATES[i]
             n == vk_to_name(vk, "")
             name == IF n.some THEN n.val ELSE VkPlaceholder(vk)
             hotkey == PushStr(has_ctrl, "Ctrl") \o PushStr(has_alt, "Alt")
                         \o PushStr(has_shift, "Shift") \o PushStr(has_win, "Win")
                         \o <<name>>
         IN [ret |-> hotkey, st |-> [st EXCEPT !.active = FALSE, !.captured = hotkey]]

-----------------------------------------------------------------------------
(* input.rs: platform_impl (macos) *)

\* macos is_modifier_key
is_modifier_keycode(keycode) == keycode \in {54, 55, 56, 60, 57, 58, 61, 59, 62, 63}

\* keycode_to_name, for the keys of the model
keycode_to_name(keycode) ==
    CASE keycode = 12 -> SomeName("Q")
      [] keycode = 9  -> SomeName("V")
      [] keycode = 48 -> SomeName("Tab")
      [] keycode = 53 -> SomeName("Escape")
      [] OTHER        -> NoName

\* event.get_flags(): the modifier flags of a key-down event
EventFlags(down) ==
    (IF "Meta" \in down THEN {"Command"} ELSE {})
      \cup (IF "Ctrl" \in down THEN {"Control"} ELSE {})
      \cup (IF "Alt" \in down THEN {"Alternate"} ELSE {})
      \cup (IF "Shift" \in down THEN {"Shift"} ELSE {})

\* the tap callback, lines 612-618: V with the Command or the Control flag raises
\* the paste latch
tap_paste(st, keycode, flags) ==
    IF keycode = 9 /\ ("Command" \in flags \/ "Control" \in flags)
    THEN [st EXCEPT !.ctrl_v = TRUE] ELSE st

\* the tap callback of start_keyboard_monitor: the capture part of lines 557-585,
\* which returns from the callback when it cancels, and behind it the paste part
tap_callback(st, keycode, flags) ==
    LET has_cmd   == "Command" \in flags
        has_ctrl  == "Control" \in flags
        has_alt   == "Alternate" \in flags
        has_shift == "Shift" \in flags
        name == keycode_to_name(keycode)
    IN
    IF ~st.active THEN tap_paste(st, keycode, flags)
    ELSE IF keycode = 53 THEN [st EXCEPT !.active = FALSE, !.captured = <<"">>]
    ELSE IF ~is_modifier_keycode(keycode)
              /\ (has_cmd \/ has_ctrl \/ has_alt \/ has_shift) /\ name.some
    THEN LET hotkey == PushStr(has_cmd, "Cmd") \o PushStr(has_ctrl, "Ctrl")
                         \o PushStr(has_alt, "Alt") \o PushStr(has_shift, "Shift")
                         \o <<name.val>>
         IN tap_paste([st EXCEPT !.active = FALSE, !.captured = hotkey], keycode, flags)
    ELSE tap_paste(st, keycode, flags)

\* the tap callback, lines 586-606: with no capture session Active and an active
\* hotkey set, the key-down of a chord whose mnemonic equals ACTIVE_HOTKEY sends ()
\* on HOTKEY_EVENT_CHANNEL
\* the tap callback comparing only the key name with the active mnemonic
tap_hotkey_fired_key_only(st, keycode, flags, active_hotkey) ==
    LET has_cmd   == "Command" \in flags
        has_ctrl  == "Control" \in flags
        has_alt   == "Alternate" \in flags
        has_shift == "Shift" \in flags
        name == keycode_to_name(keycode)
    IN
    /\ ~st.active
    /\ active_hotkey # None
    /\ ~is_modifier_keycode(keycode)
    /\ has_cmd \/ has_ctrl \/ has_alt \/ has_shift
    /\ name.some
    /\ name.val = active_hotkey[Len(active_hotkey)]

\* the tap callback comparing the chord with the active mnemonic whether or not
\* a capture session is Active
tap_hotkey_fired_while_active(st, keycode, flags, active_hotkey) ==
    LET has_cmd   == "Command" \in flags
        has_ctrl  == "Control" \in flags
        has_alt   == "Alternate" \in flags
        has_shift == "Shift" \in flags
        name == keycode_to_name(keycode)
    IN
    /\ active_hotkey # None
    /\ ~is_modifier_keycode(keycode)
    /\ has_cmd \/ has_ctrl \/ has_alt \/ has_shift
    /\ name.some
    /\ PushStr(has_cmd, "Cmd") \o PushStr(has_ctrl, "Ctrl") \o PushStr(has_alt, "Alt")
          \o PushStr(has_shift, "Shift") \o <<name.val>> = active_hotkey

tap_hotkey_fired(st, keycode, flags, active_hotkey) ==
    LET has_cmd   == "Command" \in flags
        has_ctrl  == "Control" \in flags
        has_alt   == "Alternate" \in flags
        has_shift == "Shift" \in flags
        name == keycode_to_name(keycode)
    IN
    /\ ~st.active
    /\ active_hotkey # None
    /\ ~is_modifier_keycode(keycode)
    /\ has_cmd \/ has_ctrl \/ has_alt \/ has_shift
    /\ name.some
    /\ PushStr(has_cmd, "Cmd") \o PushStr(has_ctrl, "Ctrl") \o PushStr(has_alt, "Alt")
          \o PushStr(has_shift, "Shift") \o <<name.val>> = active_hotkey

\* poll_hotkey_capture (macos)
poll_hotkey_capture_macos(st, down) == [ret |-> None, st |-> st]

\* the public poll_hotkey_capture
poll_hotkey_capture(st, down) ==
    IF platform = "windows" THEN poll_hotkey_capture_windows(st, down)
    ELSE poll_hotkey_capture_macos(st, down)

-----------------------------------------------------------------------------
(* The capture session: its consumer (main.rs) and the raw key events *)

\* the modifier of the platform's paste chord is down: Ctrl, on macos also Command
PasteModifierHeld == "Ctrl" \in phys \/ (platform = "macos" /\ "Meta" \in phys)

\* check_ctrl_v_pressed: CTRL_V_DETECTED.swap(false)
check_ctrl_v_pressed(st) == [ret |-> st.ctrl_v, st |-> [st EXCEPT !.ctrl_v = FALSE]]

\* get_captured_hotkey: CAPTURED_HOTKEY.take()
get_captured_hotkey(st) == [ret |-> st.captured, st |-> [st EXCEPT !.captured = None]]

\* on_start_hotkey_capture: set_hotkey_recording(true), start_hotkey_capture()
start_hotkey_capture ==
    /\ ui_pc = "idle"
    /\ hotkey_recording' = TRUE
    /\ HOTKEY_CAPTURE_ACTIVE' = TRUE
    /\ CAPTURED_HOTKEY' = None
    /\ ev' = NoEv
    /\ session_mods' = {}
    /\ received' = <<>>
    /\ key_seen' = FALSE
    /\ stopped' = FALSE
    /\ UNCHANGED <<platform, HOTKEY_CAPTURE_CTRL, HOTKEY_CAPTURE_ALT,
                   HOTKEY_CAPTURE_SHIFT, HOTKEY_CAPTURE_WIN, CTRL_PRESSED,
                   CTRL_V_DETECTED, phys, chord_unread>>
    /\ UNCHANGED notCapVars

\* on_cancel_settings / open_settings_window: stop_hotkey_capture(),
\* set_hotkey_recording(false)
stop_capture_session ==
    /\ hotkey_recording' = FALSE
    /\ HOTKEY_CAPTURE_ACTIVE' = FALSE
    /\ ev' = NoEv
    /\ session_mods' = {}
    /\ received' = <<>>
    /\ key_seen' = FALSE
    /\ stopped' = TRUE
    /\ UNCHANGED <<platform, CAPTURED_HOTKEY, HOTKEY_CAPTURE_CTRL, HOTKEY_CAPTURE_ALT,
                   HOTKEY_CAPTURE_SHIFT, HOTKEY_CAPTURE_WIN, CTRL_PRESSED,
                   CTRL_V_DETECTED, phys, chord_unread>>

\* the settings window stops the session: its Cancel button and its reopening
stop_hotkey_capture ==
    /\ ui_pc = "idle"
    /\ stop_capture_session
    /\ UNCHANGED notCapVars

(* input.rs (macos): the parser behind set_active_hotkey *)

\* normalize_key_name: the key-name table of the macos parser, on a lowercased name
normalize_key_name(key) ==
    LET k == to_lowercase(key) IN
    CASE k = "q"                 -> SomeName("Q")
      [] k = "t"                 -> SomeName("T")
      [] k = "tab"               -> SomeName("Tab")
      [] k \in {"escape", "esc"} -> SomeName("Escape")
      [] k \in {"space", "spacebar"} -> SomeName("Space")
      [] k = "v"                 -> SomeName("V")
      [] OTHER                   -> NoName

\* the loop of normalize_hotkey_string over parts[i..]: an empty part is skipped, a
\* modifier token sets its flag, any other token is the main key, of which a
\* second one is refused
RECURSIVE normalize_parts(_, _, _, _)
normalize_parts(parts, i, flags, key_name) ==
    IF i > Len(parts) THEN [err |-> "", flags |-> flags, key_name |-> key_name]
    ELSE LET part == trim(parts[i])
             lower == to_lowercase(part) IN
         IF part = "" THEN normalize_parts(parts, i + 1, flags, key_name)
         ELSE CASE lower \in {"cmd", "command"} ->
                      normalize_parts(parts, i + 1, flags \cup {"Cmd"}, key_name)
                [] lower \in {"ctrl", "control"} ->
                      normalize_parts(parts, i + 1, flags \cup {"Ctrl"}, key_name)
                [] lower \in {"alt", "option", "opt"} ->
                      normalize_parts(parts, i + 1, flags \cup {"Alt"}, key_name)
                [] lower = "shift" ->
                      normalize_parts(parts, i + 1, flags \cup {"Shift"}, key_name)
                [] OTHER ->
                      IF key_name.some
                      THEN [err |-> "MultipleMainKeys", flags |-> flags, key_name |-> key_name]
                      ELSE IF ~normalize_key_name(lower).some
                      THEN [err |-> "UnknownKey", flags |-> flags, key_name |-> key_name]
                      ELSE normalize_parts(parts, i + 1, flags, normalize_key_name(lower))

normalize_hotkey_string(hotkey) ==
    LET r == normalize_parts(hotkey, 1, {}, NoName) IN
    IF r.err # "" THEN [ok |-> FALSE, err |-> r.err, value |-> None]
    ELSE IF ~r.key_name.some THEN [ok |-> FALSE, err |-> "NoKey", value |-> None]
    ELSE IF r.flags = {} THEN [ok |-> FALSE, err |-> "NoModifier", value |-> None]
    ELSE [ok |-> TRUE, err |-> "",
          value |-> PushStr("Cmd" \in r.flags, "Cmd") \o PushStr("Ctrl" \in r.flags, "Ctrl")
                      \o PushStr("Alt" \in r.flags, "Alt")
                      \o PushStr("Shift" \in r.flags, "Shift") \o <<r.key_name.val>>]

\* the manager and the platform after HotkeyManager::new has returned r
SetManager(r) ==
    /\ ret' = r.ret
    /\ mgr' = r.mgr
    /\ translate_hotkey' = r.hotkey
    /\ translate_hotkey_id' = r.id
    /\ current_hotkey' = r.current
    /\ registered' = r.registered
    /\ ACTIVE_HOTKEY' = r.active

\* the manager and the platform as they are now
ManagerNow ==
    [ret |-> ret, mgr |-> mgr, hotkey |-> translate_hotkey, id |-> translate_hotkey_id,
     current |-> current_hotkey, registered |-> registered, active |-> ACTIVE_HOTKEY]

\* HotkeyManager::update_hotkey of either build on the manager m, as a function of
\* its argument and of what register and unregister answer
update_hotkey_result(m, hotkey_str, reg_ok, unreg_ok) ==
    LET n == str_to_lowercase(hotkey_str) IN
    IF n = m.current THEN [m EXCEPT !.ret = "ok"]
    ELSE IF platform = "macos"
    THEN LET a == normalize_hotkey_string(hotkey_str) IN
         IF ~a.ok THEN [m EXCEPT !.ret = "err_parse"]
         ELSE [m EXCEPT !.ret = "ok", !.active = a.value, !.current = n]
    ELSE LET p == parse_hotkey(hotkey_str) IN
         IF ~p.ok THEN [m EXCEPT !.ret = "err_parse"]
         ELSE IF ~reg_ok \/ p.hotkey \in m.registered THEN [m EXCEPT !.ret = "err_register"]
         ELSE IF ~unreg_ok
         THEN [m EXCEPT !.ret = "err_unregister", !.registered = m.registered \cup {p.hotkey}]
         ELSE [m EXCEPT !.ret = "ok", !.hotkey = p.hotkey, !.id = hotkey_id(p.hotkey),
                        !.current = n,
                        !.registered = (m.registered \cup {p.hotkey}) \ {m.hotkey}]

\* the manager, the configuration in memory and on disk and the settings window
WorldNow ==
    [m |-> ManagerNow, config |-> config_hotkey, saved |-> saved_hotkey, win |-> win_hotkey]

\* apply_captured_hotkey: nothing for the empty string; update_hotkey, and on its
\* error the window keeps the previous mnemonic; on success the window and
\* config.hotkey get the mnemonic and config.save() is tried
apply_captured_hotkey(w, hotkey, reg_ok, unreg_ok, save_ok) ==
    IF hotkey = <<"">> THEN w
    ELSE LET r == update_hotkey_result(w.m, hotkey, reg_ok, unreg_ok) IN
         IF r.ret # "ok" THEN [w EXCEPT !.m = r]
         ELSE [m |-> r, win |-> hotkey, config |-> hotkey,
               saved |-> IF save_ok THEN hotkey ELSE w.saved]

\* what register and unregister may answer: the macos build calls neither
PlatformAnswers == IF platform = "macos" THEN {TRUE} ELSE BOOLEAN

\* the timer callback hands the outcomes of one tick to apply_captured_hotkey, the
\* polled one first
ApplyOutcomes(got) ==
    \E reg1, unreg1 \in PlatformAnswers : \E save1 \in BOOLEAN :
    \E reg2, unreg2 \in (IF Len(got) > 1 THEN PlatformAnswers ELSE {TRUE}) :
    \E save2 \in (IF Len(got) > 1 THEN BOOLEAN ELSE {TRUE}) :
    \E w1 \in {apply_captured_hotkey(WorldNow, got[1], reg1, unreg1, save1)} :
    \E w2 \in {IF Len(got) > 1
               THEN apply_captured_hotkey(w1, got[2], reg2, unreg2, save2) ELSE w1} :
       /\ SetManager(w2.m)
       /\ config_hotkey' = w2.config
       /\ saved_hotkey' = w2.saved
       /\ win_hotkey' = w2.win

\* the timer callback, main.rs lines 192-240: one try_recv on the hotkey event
\* channel and is_translate_hotkey on what it returned; check_ctrl_v_pressed(); while the
\* settings window records, poll_hotkey_capture() and then get_captured_hotkey(),
\* each result handed to apply_captured_hotkey, which acts once main has built
\* the manager; on macos one try_recv on the fault channel
timer_tick ==
    /\ ui_pc = "idle"
    /\ IF HOTKEY_EVENT_CHANNEL # <<>>
       THEN /\ HOTKEY_EVENT_CHANNEL' = Tail(HOTKEY_EVENT_CHANNEL)
            /\ hotkey_seen' = [got |-> TRUE, event |-> Head(HOTKEY_EVENT_CHANNEL),
                               matched |-> is_match(Head(HOTKEY_EVENT_CHANNEL))]
       ELSE /\ hotkey_seen' = NoHotkeyEvent
            /\ UNCHANGED HOTKEY_EVENT_CHANNEL
    /\ \E v \in {check_ctrl_v_pressed(Statics)} :
       \E p \in {IF hotkey_recording THEN poll_hotkey_capture(v.st, phys)
                  ELSE [ret |-> None, st |-> v.st]} :
       \E g \in {IF hotkey_recording THEN get_captured_hotkey(p.st)
                  ELSE [ret |-> None, st |-> p.st]} :
       \E got \in {(IF p.ret # None THEN <<p.ret>> ELSE <<>>)
                      \o (IF g.ret # None THEN <<g.ret>> ELSE <<>>)} :
          /\ SetStatics(g.st)
          /\ received' = received \o got
          /\ hotkey_recording' = (hotkey_recording /\ got = <<>>)
          /\ IF got # <<>> /\ mgr \in {"alive", "macos"}
             THEN ApplyOutcomes(got)
             ELSE UNCHANGED <<ret, mgr, translate_hotkey, translate_hotkey_id, current_hotkey,
                              registered, ACTIVE_HOTKEY, config_hotkey, saved_hotkey,
                              win_hotkey>>
    /\ chord_unread' = FALSE
    /\ IF platform = "macos" /\ MONITOR_ERROR_CHANNEL # <<>>
       THEN /\ alerts' = Append(alerts, Head(MONITOR_ERROR_CHANNEL))
            /\ MONITOR_ERROR_CHANNEL' = Tail(MONITOR_ERROR_CHANNEL)
       ELSE UNCHANGED <<alerts, MONITOR_ERROR_CHANNEL>>
    /\ ev' = NoEv
    /\ UNCHANGED <<platform, phys, session_mods, stopped, key_seen>>
    /\ UNCHANGED <<mon_pc, mon_msg, MONITOR_ERROR_REPORTED, faults_sent>>
    /\ UNCHANGED <<pc, new_hotkey, normalized, calls, entry>>
    /\ UNCHANGED <<raceVars, parseVars, locVars, proc, first_failed>>

\* the callback the platform runs for one raw key transition: the hook gets every
\* key-down and key-up, the event tap gets the key-downs of the keys that are not
\* modifiers, with the modifier flags of that moment
callback(st, k, is_keydown, down, os_text) ==
    IF platform = "windows" THEN keyboard_hook_proc(st, Vk(k), is_keydown, os_text)
    ELSE IF is_keydown /\ k \notin Mods THEN tap_callback(st, Keycode(k), EventFlags(down))
    ELSE st

\* what the callback of one raw key transition does to HOTKEY_EVENT_CHANNEL: the
\* tap sends the event of the active hotkey, the hook sends nothing
hotkey_event_send(k, is_keydown, down) ==
    \E fired \in {/\ platform = "macos" /\ is_keydown /\ k \notin Mods
                  /\ tap_hotkey_fired(Statics, Keycode(k), EventFlags(down), ACTIVE_HOTKEY)} :
       /\ fired => Len(HOTKEY_EVENT_CHANNEL) < MaxTapQueued
       /\ HOTKEY_EVENT_CHANNEL' =
             IF fired THEN Append(HOTKEY_EVENT_CHANNEL, [id |-> 0, of |-> ACTIVE_HOTKEY])
             ELSE HOTKEY_EVENT_CHANNEL

\* one raw key transition and the callback the platform runs for it, as one step
key_event(k, is_keydown) ==
    /\ cb_pc = "idle"
    /\ IF is_keydown THEN Cardinality(phys \cup {k}) <= MaxHeld ELSE k \in phys
    /\ phys' = IF is_keydown THEN phys \cup {k} ELSE phys \ {k}
    /\ ev' = [kind |-> IF is_keydown THEN "down" ELSE "up", key |-> k]
    /\ session_mods' =
          IF k \in Mods /\ ~is_keydown THEN session_mods \ {k}
          ELSE IF k \in Mods /\ HOTKEY_CAPTURE_ACTIVE THEN session_mods \cup {k}
          ELSE session_mods
    /\ chord_unread' = (chord_unread \/ (is_keydown /\ k = "V" /\ PasteModifierHeld))
    /\ \E os_text \in (IF platform = "windows" THEN OsTexts ELSE {""}) :
       \E st \in {callback(Statics, k, is_keydown, phys', os_text)} : SetStatics(st)
    /\ hotkey_event_send(k, is_keydown, phys')
    /\ key_seen' = TRUE
    /\ UNCHANGED <<platform, hotkey_recording, received, stopped>>
    /\ UNCHANGED <<hkVars, raceVars, monVars, parseVars, locVars>>
    /\ UNCHANGED <<proc, config_hotkey, saved_hotkey, first_failed, ACTIVE_HOTKEY, hotkey_seen,
                   win_hotkey>>

CaptureNext ==
    \/ start_hotkey_capture
    \/ stop_hotkey_capture
    \/ timer_tick
    \/ \E k \in Keys : key_event(k, TRUE)
    \/ \E k \in Keys : key_event(k, FALSE)

\* the capture session, its consumer and the raw key events
SpecCapture == Init /\ [][CaptureNext]_vars

\* the paste latch: the keys of the paste chords, the timer that reads the latch
\* and the capture session the same callback serves
PasteNext ==
    \/ \E k \in PasteKeys : key_event(k, TRUE)
    \/ \E k \in PasteKeys : key_event(k, FALSE)
    \/ timer_tick
    \/ start_hotkey_capture
    \/ stop_hotkey_capture

SpecPaste == Init /\ [][PasteNext]_vars

-----------------------------------------------------------------------------
(* The capture session, statement by statement: the pump thread's callback *)
(* against start_hotkey_capture and stop_hotkey_capture of the UI thread   *)

\* the keys of the interleavings: a modifier, a key that captures and Escape
RaceKeys == {"Ctrl", "Q", "Escape"}

\* the callback from its entry up to its first store of an outcome: it loads
\* HOTKEY_CAPTURE_ACTIVE (input.rs:314, 555), follows the modifier keys and decides;
\* a callback that neither cancels nor captures ends here
callback_begin(k, is_keydown) ==
    /\ cb_pc = "idle"
    /\ IF is_keydown THEN Cardinality(phys \cup {k}) <= MaxHeld ELSE k \in phys
    /\ phys' = IF is_keydown THEN phys \cup {k} ELSE phys \ {k}
    /\ ev' = [kind |-> IF is_keydown THEN "down" ELSE "up", key |-> k]
    /\ session_mods' =
          IF k \in Mods /\ ~is_keydown THEN session_mods \ {k}
          ELSE IF k \in Mods /\ HOTKEY_CAPTURE_ACTIVE THEN session_mods \cup {k}
          ELSE session_mods
    /\ chord_unread' = (chord_unread \/ (is_keydown /\ k = "V" /\ PasteModifierHeld))
    /\ key_seen' = TRUE
    /\ \E st \in {callback(Statics, k, is_keydown, phys', "")} :
          IF HOTKEY_CAPTURE_ACTIVE /\ ~st.active
          THEN /\ SetStatics([st EXCEPT !.active = TRUE, !.captured = CAPTURED_HOTKEY])
               /\ cb_out' = st.captured
               \* the hook stores a captured hotkey before the flag (365-366); the
               \* hook's cancel (340-341) and the tap (558-559, 580-581) the flag first
               /\ cb_pc' = IF platform = "windows" /\ st.captured # <<"">>
                           THEN "store_captured_first" ELSE "store_active_first"
          ELSE /\ SetStatics(st)
               /\ UNCHANGED <<cb_pc, cb_out>>
    /\ hotkey_event_send(k, is_keydown, phys')
    /\ UNCHANGED <<platform, hotkey_recording, received, stopped, ui_pc>>
    /\ UNCHANGED <<hkVars, monVars, parseVars, locVars>>
    /\ UNCHANGED <<proc, config_hotkey, saved_hotkey, first_failed, ACTIVE_HOTKEY, hotkey_seen,
                   win_hotkey>>

\* the first of the callback's two stores
callback_first_store ==
    /\ cb_pc \in {"store_captured_first", "store_active_first"}
    /\ IF cb_pc = "store_captured_first"
       THEN /\ CAPTURED_HOTKEY' = cb_out
            /\ cb_pc' = "store_active"
            /\ UNCHANGED HOTKEY_CAPTURE_ACTIVE
       ELSE /\ HOTKEY_CAPTURE_ACTIVE' = FALSE
            /\ cb_pc' = "store_captured"
            /\ UNCHANGED CAPTURED_HOTKEY
    /\ ev' = NoEv
    /\ UNCHANGED <<platform, HOTKEY_CAPTURE_CTRL, HOTKEY_CAPTURE_ALT, HOTKEY_CAPTURE_SHIFT,
                   HOTKEY_CAPTURE_WIN, CTRL_PRESSED, CTRL_V_DETECTED, hotkey_recording,
                   phys, session_mods, received, key_seen, stopped, chord_unread>>
    /\ UNCHANGED <<cb_out, ui_pc, hkVars, monVars, parseVars, mainVars, locVars>>

\* the second of the callback's two stores, after which the callback returns
callback_second_store ==
    /\ cb_pc \in {"store_active", "store_captured"}
    /\ IF cb_pc = "store_captured"
       THEN CAPTURED_HOTKEY' = cb_out /\ UNCHANGED HOTKEY_CAPTURE_ACTIVE
       ELSE HOTKEY_CAPTURE_ACTIVE' = FALSE /\ UNCHANGED CAPTURED_HOTKEY
    /\ cb_pc' = "idle"
    /\ cb_out' = None
    /\ ev' = NoEv
    /\ UNCHANGED <<platform, HOTKEY_CAPTURE_CTRL, HOTKEY_CAPTURE_ALT, HOTKEY_CAPTURE_SHIFT,
                   HOTKEY_CAPTURE_WIN, CTRL_PRESSED, CTRL_V_DETECTED, hotkey_recording,
                   phys, session_mods, received, key_seen, stopped, chord_unread>>
    /\ UNCHANGED <<ui_pc, hkVars, monVars, parseVars, mainVars, locVars>>

\* on_start_hotkey_capture up to start_hotkey_capture, line 35:
\* set_hotkey_recording(true), HOTKEY_CAPTURE_ACTIVE.store(true)
start_store_active ==
    /\ ui_pc = "idle"
    /\ ui_pc' = "clear_captured"
    /\ hotkey_recording' = TRUE
    /\ HOTKEY_CAPTURE_ACTIVE' = TRUE
    /\ ev' = NoEv
    /\ session_mods' = {}
    /\ received' = <<>>
    /\ key_seen' = FALSE
    /\ stopped' = FALSE
    /\ UNCHANGED <<platform, CAPTURED_HOTKEY, HOTKEY_CAPTURE_CTRL, HOTKEY_CAPTURE_ALT,
                   HOTKEY_CAPTURE_SHIFT, HOTKEY_CAPTURE_WIN, CTRL_PRESSED,
                   CTRL_V_DETECTED, phys, chord_unread>>
    /\ UNCHANGED <<cb_pc, cb_out, hkVars, monVars, parseVars, mainVars, locVars>>

\* start_hotkey_capture, line 36: *CAPTURED_HOTKEY.lock().unwrap() = None
start_clear_captured ==
    /\ ui_pc = "clear_captured"
    /\ ui_pc' = "idle"
    /\ CAPTURED_HOTKEY' = None
    /\ ev' = NoEv
    /\ UNCHANGED <<platform, HOTKEY_CAPTURE_ACTIVE, HOTKEY_CAPTURE_CTRL, HOTKEY_CAPTURE_ALT,
                   HOTKEY_CAPTURE_SHIFT, HOTKEY_CAPTURE_WIN, CTRL_PRESSED, CTRL_V_DETECTED,
                   hotkey_recording, phys, session_mods, received, key_seen, stopped,
                   chord_unread>>
    /\ UNCHANGED <<cb_pc, cb_out, hkVars, monVars, parseVars, mainVars, locVars>>

RaceNext ==
    \/ \E k \in RaceKeys : callback_begin(k, TRUE)
    \/ \E k \in RaceKeys : callback_begin(k, FALSE)
    \/ callback_first_store
    \/ callback_second_store
    \/ start_store_active
    \/ start_clear_captured
    \/ stop_hotkey_capture
    \/ timer_tick

\* the pump thread's callback and the UI thread, interleaved store by store
SpecRace == Init /\ [][RaceNext]_vars


-----------------------------------------------------------------------------
(* input.rs: start_keyboard_monitor, its pump threads and the fault channel *)

\* start_keyboard_monitor: thread::spawn of one more pump thread
start_keyboard_monitor ==
    /\ \E t \in MonitorThreads :
          /\ mon_pc[t] = "unspawned"
          /\ \A u \in MonitorThreads : u < t => mon_pc[u] # "unspawned"
          /\ mon_pc' = [mon_pc EXCEPT ![t] = "install"]
    /\ UNCHANGED <<mon_msg, MONITOR_ERROR_REPORTED, MONITOR_ERROR_CHANNEL, faults_sent, alerts>>
    /\ UNCHANGED <<hkVars, capVars, raceVars, parseVars, mainVars, locVars>>

\* the pump thread installs the interception point: SetWindowsHookExW, whose
\* failure is logged only (lines 391-405), or CGEventTap::new, whose failure is
\* logged and reported (lines 547-631)
monitor_install(t) ==
    /\ mon_pc[t] = "install"
    /\ \E installed \in BOOLEAN :
          IF installed
          THEN /\ mon_pc' = [mon_pc EXCEPT ![t] = IF platform = "windows" THEN "pumping"
                                                 ELSE "runloop_source"]
               /\ UNCHANGED mon_msg
          ELSE IF platform = "windows"
          THEN /\ mon_pc' = [mon_pc EXCEPT ![t] = "exited"]
               /\ mon_msg' = [mon_msg EXCEPT ![t] = "keyboard hook failed"]
          ELSE /\ mon_pc' = [mon_pc EXCEPT ![t] = "report"]
               /\ mon_msg' = [mon_msg EXCEPT ![t] = "keyboard monitor failed"]
    /\ UNCHANGED <<MONITOR_ERROR_REPORTED, MONITOR_ERROR_CHANNEL, faults_sent, alerts>>
    /\ UNCHANGED <<hkVars, capVars, raceVars, parseVars, mainVars, locVars>>

\* macos, lines 633-649: create_runloop_source, then the run loop
monitor_runloop_source(t) ==
    /\ mon_pc[t] = "runloop_source"
    /\ \E created \in BOOLEAN :
          IF created
          THEN /\ mon_pc' = [mon_pc EXCEPT ![t] = "pumping"]
               /\ UNCHANGED mon_msg
          ELSE /\ mon_pc' = [mon_pc EXCEPT ![t] = "report"]
               /\ mon_msg' = [mon_msg EXCEPT ![t] = "keyboard runloop source failed"]
    /\ UNCHANGED <<MONITOR_ERROR_REPORTED, MONITOR_ERROR_CHANNEL, faults_sent, alerts>>
    /\ UNCHANGED <<hkVars, capVars, raceVars, parseVars, mainVars, locVars>>

\* report_keyboard_monitor_error with MONITOR_ERROR_REPORTED.load() in the place
\* of swap(true)
report_keyboard_monitor_error_load(t) ==
    /\ mon_pc[t] = "report"
    /\ mon_pc' = [mon_pc EXCEPT ![t] = IF MONITOR_ERROR_REPORTED THEN "exited" ELSE "send"]
    /\ UNCHANGED <<mon_msg, MONITOR_ERROR_REPORTED, MONITOR_ERROR_CHANNEL, faults_sent, alerts>>
    /\ UNCHANGED <<hkVars, capVars, raceVars, parseVars, mainVars, locVars>>

\* report_keyboard_monitor_error, lines 130-132: MONITOR_ERROR_REPORTED.swap(true),
\* and the return when it was set
report_keyboard_monitor_error(t) ==
    /\ mon_pc[t] = "report"
    /\ MONITOR_ERROR_REPORTED' = TRUE
    /\ mon_pc' = [mon_pc EXCEPT ![t] = IF MONITOR_ERROR_REPORTED THEN "exited" ELSE "send"]
    /\ UNCHANGED <<mon_msg, MONITOR_ERROR_CHANNEL, faults_sent, alerts>>
    /\ UNCHANGED <<hkVars, capVars, raceVars, parseVars, mainVars, locVars>>

\* report_keyboard_monitor_error, line 133: MONITOR_ERROR_CHANNEL.0.send(message),
\* after which the pump thread returns
monitor_error_send(t) ==
    /\ mon_pc[t] = "send"
    /\ MONITOR_ERROR_CHANNEL' = Append(MONITOR_ERROR_CHANNEL, mon_msg[t])
    /\ faults_sent' = Append(faults_sent, mon_msg[t])
    /\ mon_pc' = [mon_pc EXCEPT ![t] = "exited"]
    /\ UNCHANGED <<mon_msg, MONITOR_ERROR_REPORTED, alerts>>
    /\ UNCHANGED <<hkVars, capVars, raceVars, parseVars, mainVars, locVars>>

MonitorNext ==
    \/ start_keyboard_monitor
    \/ \E t \in MonitorThreads : monitor_install(t)
    \/ \E t \in MonitorThreads : monitor_runloop_source(t)
    \/ \E t \in MonitorThreads : report_keyboard_monitor_error(t)
    \/ \E t \in MonitorThreads : monitor_error_send(t)
    \/ timer_tick

\* the pump threads, the fault channel and the timer callback that reads it
SpecMonitor == Init /\ [][MonitorNext]_vars

-----------------------------------------------------------------------------
(* The parsers: parse_hotkey (hotkey.rs) and normalize_hotkey_string (input.rs, *)
(* macos), each applied to one mnemonic                                         *)

\* the tokens of the mnemonics under test: modifiers in several spellings and
\* cases, two keys of both tables, one of them also with a blank before it, a key
\* name of each table that the other does not have, a name that is in no table,
\* the empty token and a blank one
ParseTokens == {"Ctrl", "control", "Shift", "shift", "Meta", "Cmd",
                "Q", " q", "T", "Insert", "Spacebar", "Banana", "", " "}

\* the strings of at most MaxTokens tokens
ParseInputs == UNION {[1..n -> ParseTokens] : n \in 1..MaxTokens}

\* one mnemonic is under test and no parser has been called
InitParse ==
    /\ InitProgram
    /\ InitConfig
    /\ InitLocator
    /\ parse_in \in ParseInputs

\* parse_hotkey(parse_in), and HotKey::id() of what it returns
call_parse_hotkey ==
    /\ parse_in # None /\ ~parse_out.called
    /\ \E r \in {parse_hotkey(parse_in)} :
          parse_out' = [called |-> TRUE, ok |-> r.ok, err |-> r.err, hotkey |-> r.hotkey,
                        id |-> IF r.ok THEN hotkey_id(r.hotkey) ELSE 0]
    /\ UNCHANGED <<parse_in, norm_out, hkVars, capVars, raceVars, monVars, mainVars, locVars>>

\* normalize_hotkey_string(parse_in)
call_normalize_hotkey_string ==
    /\ parse_in # None /\ ~norm_out.called
    /\ \E r \in {normalize_hotkey_string(parse_in)} :
          norm_out' = [called |-> TRUE, ok |-> r.ok, err |-> r.err, value |-> r.value]
    /\ UNCHANGED <<parse_in, parse_out, hkVars, capVars, raceVars, monVars, mainVars, locVars>>

ParseNext ==
    \/ call_parse_hotkey
    \/ call_normalize_hotkey_string

\* the two parsers as functions of their input
SpecParse == InitParse /\ [][ParseNext]_vars

-----------------------------------------------------------------------------
(* main.rs: startup, the hotkey events and shutdown *)

\* the mnemonics of the configuration file and of the settings window: the
\* default, two others, one of them with the modifier that only
\* parse_hotkey knows, and one that does not parse
MainMnemonics == {<<"Alt", "Q">>, <<"Ctrl", "Q">>, <<"Meta", "Q">>, <<"Ctrl", "Banana">>}

InitMain ==
    /\ InitProgram
    /\ InitLocator
    /\ parse_in = None
    /\ config_hotkey \in MainMnemonics
    /\ saved_hotkey = config_hotkey

\* what HotkeyManager::new leaves behind when it returns an error
NewFailed(r) == [ret |-> r, mgr |-> "none", hotkey |-> NoHotkey, id |-> 0,
                 current |-> None, registered |-> registered, active |-> ACTIVE_HOTKEY]

\* HotkeyManager::new of either build as a function of its argument and of what
\* GlobalHotKeyManager::new and register answer
HotkeyManager_new_result(hotkey_str, manager_ok, reg_ok) ==
    IF platform = "macos"
    THEN LET n == normalize_hotkey_string(hotkey_str) IN
         IF ~n.ok THEN NewFailed("err_parse")
         ELSE [ret |-> "ok", mgr |-> "macos", hotkey |-> NoHotkey, id |-> 0,
               current |-> str_to_lowercase(hotkey_str), registered |-> registered,
               active |-> n.value]
    ELSE LET p == parse_hotkey(hotkey_str) IN
         IF ~manager_ok THEN NewFailed("err_manager")
         ELSE IF ~p.ok THEN NewFailed("err_parse")
         ELSE IF ~reg_ok \/ p.hotkey \in registered THEN NewFailed("err_register")
         ELSE [ret |-> "ok", mgr |-> "alive", hotkey |-> p.hotkey, id |-> hotkey_id(p.hotkey),
               current |-> str_to_lowercase(hotkey_str),
               registered |-> registered \cup {p.hotkey}, active |-> ACTIVE_HOTKEY]

\* main with config.hotkey left as it was when the first HotkeyManager::new fails
main_startup_config_kept ==
    /\ proc = "loading" /\ mgr = "none"
    /\ \E ok1, reg1, ok2, reg2 \in BOOLEAN :
       \E r1 \in {HotkeyManager_new_result(config_hotkey, ok1, reg1)} :
       \E r2 \in {HotkeyManager_new_result(DEFAULT_HOTKEY, ok2, reg2)} :
          IF r1.ret = "ok"
          THEN /\ SetManager(r1)
               /\ first_failed' = FALSE
               /\ proc' = "running"
          ELSE /\ SetManager(r2)
               /\ first_failed' = TRUE
               /\ proc' = IF r2.ret = "ok" THEN "running" ELSE "failed"
    /\ UNCHANGED <<config_hotkey, saved_hotkey>>
    /\ UNCHANGED <<pc, new_hotkey, normalized, calls, entry, HOTKEY_EVENT_CHANNEL, hotkey_seen, win_hotkey>>
    /\ UNCHANGED <<capVars, raceVars, monVars, parseVars, locVars>>

\* main, lines 47-62: HotkeyManager::new(&config.hotkey); when it fails,
\* config.hotkey = DEFAULT_HOTKEY, config.save() with its error only printed, and
\* HotkeyManager::new(&config.hotkey)?, whose error main returns
main_startup ==
    /\ proc = "loading" /\ mgr = "none"
    /\ \E ok1, reg1, ok2, reg2, saved \in BOOLEAN :
       \E r1 \in {HotkeyManager_new_result(config_hotkey, ok1, reg1)} :
       \E r2 \in {HotkeyManager_new_result(DEFAULT_HOTKEY, ok2, reg2)} :
          IF r1.ret = "ok"
          THEN /\ SetManager(r1)
               /\ first_failed' = FALSE
               /\ proc' = "running"
               /\ UNCHANGED <<config_hotkey, saved_hotkey>>
          ELSE /\ config_hotkey' = DEFAULT_HOTKEY
               /\ saved_hotkey' = IF saved THEN DEFAULT_HOTKEY ELSE saved_hotkey
               /\ SetManager(r2)
               /\ first_failed' = TRUE
               /\ proc' = IF r2.ret = "ok" THEN "running" ELSE "failed"
    /\ UNCHANGED <<pc, new_hotkey, normalized, calls, entry, HOTKEY_EVENT_CHANNEL, hotkey_seen, win_hotkey>>
    /\ UNCHANGED <<capVars, raceVars, monVars, parseVars, locVars>>

\* HotkeyManager::update_hotkey (macos), lines 50-58
update_hotkey_macos(hotkey_str) ==
    /\ mgr = "macos"
    /\ LET n == str_to_lowercase(hotkey_str)
           a == normalize_hotkey_string(hotkey_str) IN
       IF n = current_hotkey THEN
          /\ ret' = "ok"
          /\ UNCHANGED <<current_hotkey, ACTIVE_HOTKEY>>
       ELSE IF ~a.ok THEN
          /\ ret' = "err_parse"
          /\ UNCHANGED <<current_hotkey, ACTIVE_HOTKEY>>
       ELSE
          /\ ACTIVE_HOTKEY' = a.value
          /\ current_hotkey' = n
          /\ ret' = "ok"
    /\ UNCHANGED <<mgr, translate_hotkey, translate_hotkey_id, registered, pc, new_hotkey,
                   normalized, calls, entry>>
    /\ UNCHANGED <<proc, config_hotkey, saved_hotkey, first_failed, HOTKEY_EVENT_CHANNEL,
                   hotkey_seen, win_hotkey>>
    /\ UNCHANGED <<capVars, raceVars, monVars, parseVars, locVars>>

\* the binding whose presses are the translate hotkey
ActiveBinding == IF platform = "macos" THEN ACTIVE_HOTKEY ELSE translate_hotkey

\* a press of a registered binding: the platform queues a GlobalHotKeyEvent with
\* the identifier of the binding; on macos the tap callback, with no capture
\* session Active, builds the mnemonic of the chord and sends () when it equals
\* ACTIVE_HOTKEY (input.rs lines 586-606). `of` remembers the binding pressed.
hotkey_pressed ==
    /\ proc = "running" /\ mgr \in {"alive", "macos"}
    /\ ~HOTKEY_CAPTURE_ACTIVE
    /\ Len(HOTKEY_EVENT_CHANNEL) < MaxQueued
    /\ IF platform = "macos"
       THEN /\ ACTIVE_HOTKEY # None
            /\ HOTKEY_EVENT_CHANNEL' =
                  Append(HOTKEY_EVENT_CHANNEL, [id |-> 0, of |-> ACTIVE_HOTKEY])
       ELSE \E h \in registered :
               HOTKEY_EVENT_CHANNEL' =
                  Append(HOTKEY_EVENT_CHANNEL, [id |-> hotkey_id(h), of |-> h])
    /\ UNCHANGED <<proc, config_hotkey, saved_hotkey, first_failed, ACTIVE_HOTKEY, hotkey_seen, win_hotkey>>
    /\ UNCHANGED <<hkVars, capVars, raceVars, monVars, parseVars, locVars>>

\* the timer callback with MenuAction::Exit in the menu channel, main.rs line
\* 209: std::process::exit(0), which runs no destructor
tray_exit ==
    /\ proc = "running" /\ mgr \in {"alive", "macos"} /\ pc = "idle"
    /\ proc' = "exited"
    /\ mgr' = "exited"
    /\ UNCHANGED <<translate_hotkey, translate_hotkey_id, current_hotkey, registered, pc,
                   new_hotkey, normalized, ret, calls, entry>>
    /\ UNCHANGED <<config_hotkey, saved_hotkey, first_failed, ACTIVE_HOTKEY,
                   HOTKEY_EVENT_CHANNEL, hotkey_seen, win_hotkey>>
    /\ UNCHANGED <<capVars, raceVars, monVars, parseVars, locVars>>

\* main, lines 245-246: the event loop has returned and main returns, dropping
\* the last Arc of the manager; only the manager that is not macos has a Drop
main_return ==
    /\ proc = "running" /\ mgr \in {"alive", "macos"} /\ pc = "idle"
    /\ proc' = "returned"
    /\ mgr' = "dropped"
    /\ ret' = "dropped"
    /\ IF platform = "macos" THEN UNCHANGED registered
       ELSE \E unreg_ok \in BOOLEAN :
               registered' = IF unreg_ok THEN registered \ {translate_hotkey} ELSE registered
    /\ UNCHANGED <<translate_hotkey, translate_hotkey_id, current_hotkey, pc, new_hotkey,
                   normalized, calls, entry>>
    /\ UNCHANGED <<config_hotkey, saved_hotkey, first_failed, ACTIVE_HOTKEY,
                   HOTKEY_EVENT_CHANNEL, hotkey_seen, win_hotkey>>
    /\ UNCHANGED <<capVars, raceVars, monVars, parseVars, locVars>>

\* the timer callback of the running process
main_timer_tick == proc = "running" /\ timer_tick

\* update_hotkey of the running process, as apply_captured_hotkey calls it
main_update_hotkey_begin(hotkey_str) == proc = "running" /\ update_hotkey_begin(hotkey_str)

MainNext ==
    \/ main_startup
    \/ \E m \in MainMnemonics : main_update_hotkey_begin(m)
    \/ update_hotkey_register
    \/ update_hotkey_unregister
    \/ \E m \in MainMnemonics : update_hotkey_macos(m)
    \/ hotkey_pressed
    \/ main_timer_tick
    \/ tray_exit
    \/ main_return

\* the process from the start of main to its end
SpecMain == InitMain /\ [][MainNext]_vars

-----------------------------------------------------------------------------
(* main.rs: the settings window, its capture sessions and the binding *)

\* the keys pressed while the settings window is being used
SettingsKeys == {"Ctrl", "Q", "Escape"}

\* config.hotkey as the process finds it
SettingsMnemonics == {<<"Alt", "Q">>}

InitSettings ==
    /\ InitProgram
    /\ InitLocator
    /\ parse_in = None
    /\ config_hotkey \in SettingsMnemonics
    /\ saved_hotkey = config_hotkey

\* open_settings_window, main.rs lines 366-399: an existing window stops the
\* session and is shown again; a new window stops the session, Config::load()
\* replaces the configuration in memory when it succeeds, and the window shows
\* config.hotkey
open_settings_window ==
    /\ proc = "running" /\ ui_pc = "idle"
    /\ stop_capture_session
    /\ IF win_hotkey # None
       THEN UNCHANGED <<config_hotkey, win_hotkey>>
       ELSE \E load_ok \in BOOLEAN :
               /\ config_hotkey' = IF load_ok THEN saved_hotkey ELSE config_hotkey
               /\ win_hotkey' = config_hotkey'
    /\ UNCHANGED <<proc, saved_hotkey, first_failed, ACTIVE_HOTKEY, HOTKEY_EVENT_CHANNEL,
                   hotkey_seen>>
    /\ UNCHANGED <<hkVars, raceVars, monVars, parseVars, locVars>>

\* on_cancel_settings, main.rs lines 700-707: the session is stopped and the
\* window is dropped
on_cancel_settings ==
    /\ proc = "running" /\ ui_pc = "idle"
    /\ win_hotkey # None
    /\ stop_capture_session
    /\ win_hotkey' = None
    /\ UNCHANGED <<proc, config_hotkey, saved_hotkey, first_failed, ACTIVE_HOTKEY,
                   HOTKEY_EVENT_CHANNEL, hotkey_seen>>
    /\ UNCHANGED <<hkVars, raceVars, monVars, parseVars, locVars>>

\* on_start_hotkey_capture of the settings window, main.rs lines 600-605
on_start_hotkey_capture == proc = "running" /\ win_hotkey # None /\ start_hotkey_capture

\* a raw key transition while the process runs
running_key_event(k, is_keydown) == proc = "running" /\ key_event(k, is_keydown)

SettingsNext ==
    \/ main_startup
    \/ open_settings_window
    \/ on_cancel_settings
    \/ on_start_hotkey_capture
    \/ \E k \in SettingsKeys : running_key_event(k, TRUE)
    \/ \E k \in SettingsKeys : running_key_event(k, FALSE)
    \/ main_timer_tick

\* the running process with its settings window, the capture sessions started
\* from it, the raw key events and the timer that applies the outcomes
SpecSettings == InitSettings /\ [][SettingsNext]_vars

\* the keys pressed on the macos build: two modifiers and two keys that
\* keycode_to_name names, one of them Escape
TapKeys == {"Ctrl", "Shift", "Q", "Escape"}

\* the macos build starts with a binding that TapKeys can press
InitTap ==
    /\ InitProgram
    /\ InitLocator
    /\ parse_in = None
    /\ platform = "macos"
    /\ config_hotkey = <<"Ctrl", "Q">>
    /\ saved_hotkey = config_hotkey

TapNext ==
    \/ main_startup
    \/ open_settings_window
    \/ on_start_hotkey_capture
    \/ \E k \in TapKeys : running_key_event(k, TRUE)
    \/ \E k \in TapKeys : running_key_event(k, FALSE)
    \/ main_timer_tick

\* the macos build: the event tap serves the capture sessions of the settings
\* window, which stays open, and fires the binding; the timer applies the outcomes
SpecTap == InitTap /\ [][TapNext]_vars

-----------------------------------------------------------------------------
(* caret.rs: calculate_popup_position and get_caret_position *)

\* calculate_popup_position with the fallback below the cursor at the gap of the
\* placement above it
calculate_popup_position_gap_10(cursor_x, cursor_y, popup_width, popup_height, screen_width, screen_height) ==
    LET x0 == cursor_x - (popup_width \div 2)
        y0 == cursor_y - popup_height - 10
        x1 == IF x0 < 0 THEN 0 ELSE x0
        x2 == IF x1 + popup_width > screen_width THEN screen_width - popup_width ELSE x1
        y1 == IF y0 < 0 THEN cursor_y + 10 ELSE y0
        y2 == IF y1 + popup_height > screen_height THEN screen_height - popup_height ELSE y1
    IN <<x2, y2>>

\* calculate_popup_position; (screen_width, screen_height) is what
\* get_screen_size() returned
calculate_popup_position(cursor_x, cursor_y, popup_width, popup_height, screen_width, screen_height) ==
    LET x0 == cursor_x - (popup_width \div 2)
        y0 == cursor_y - popup_height - 10
        x1 == IF x0 < 0 THEN 0 ELSE x0
        x2 == IF x1 + popup_width > screen_width THEN screen_width - popup_width ELSE x1
        y1 == IF y0 < 0 THEN cursor_y + 20 ELSE y0
        y2 == IF y1 + popup_height > screen_height THEN screen_height - popup_height ELSE y1
    IN <<x2, y2>>

\* the placements under test: a grid of cursors on, beside and above a screen,
\* popups that fit and one that does not fit the smaller screen, and the two
\* placements on a 1920x1080 screen
ScreenEdges == {MaxScreen - 25, MaxScreen}
PopupEdges == {10, 24, 40}
CursorCoords == {c \in -30..(MaxScreen + 10) : c % 5 = 0}
PopupInputs ==
    [cursor_x : CursorCoords, cursor_y : CursorCoords, popup_width : PopupEdges,
     popup_height : PopupEdges, screen_width : ScreenEdges, screen_height : ScreenEdges]
    \cup {[cursor_x |-> 960, cursor_y |-> cy, popup_width |-> 380, popup_height |-> 220,
           screen_width |-> 1920, screen_height |-> 1080] : cy \in {540, 5}}

InitPopup ==
    /\ InitProgram
    /\ InitConfig
    /\ parse_in = None
    /\ caret_env = None
    /\ popup_in \in PopupInputs

\* handle_translate_hotkey, main.rs lines 755-757: calculate_popup_position
call_calculate_popup_position ==
    /\ popup_in # None /\ ~popup_out.called
    /\ popup_out' = [called |-> TRUE,
                     pos |-> calculate_popup_position(
                                popup_in.cursor_x, popup_in.cursor_y, popup_in.popup_width,
                                popup_in.popup_height, popup_in.screen_width,
                                popup_in.screen_height)]
    /\ UNCHANGED <<popup_in, caret_env, caret_out>>
    /\ UNCHANGED <<hkVars, capVars, raceVars, monVars, parseVars, mainVars>>

PopupNext == call_calculate_popup_position

\* calculate_popup_position as a function of its arguments and the screen
SpecPopup == InitPopup /\ [][PopupNext]_vars

NoPos == [some |-> FALSE, pos |-> <<0, 0>>]

\* windows get_caret_from_gui_thread without the test of GUI_CARETBLINKING
get_caret_from_gui_thread_any_caret(env) ==
    IF env.foreground_null THEN NoPos
    ELSE IF env.thread_id = 0 THEN NoPos
    ELSE IF ~env.gui_info_ok THEN NoPos
    ELSE IF env.caret_null THEN NoPos
    ELSE IF env.to_screen_ok THEN [some |-> TRUE, pos |-> env.caret]
    ELSE NoPos

\* windows get_caret_from_gui_thread, lines 44-91
get_caret_from_gui_thread(env) ==
    IF env.foreground_null THEN NoPos
    ELSE IF env.thread_id = 0 THEN NoPos
    ELSE IF ~env.gui_info_ok THEN NoPos
    ELSE IF env.caret_null THEN NoPos
    ELSE IF ~env.blinking THEN NoPos
    ELSE IF env.to_screen_ok THEN [some |-> TRUE, pos |-> env.caret]
    ELSE NoPos

\* windows get_mouse_position and macos get_mouse_position
get_mouse_position(env) ==
    IF platform = "macos"
    THEN IF env.source_ok /\ env.event_ok THEN env.mouse ELSE <<0, 0>>
    ELSE IF env.mouse_ok THEN env.mouse ELSE <<0, 0>>

\* get_caret_position of the build
get_caret_position(env) ==
    IF platform = "macos" THEN get_mouse_position(env)
    ELSE IF get_caret_from_gui_thread(env).some THEN get_caret_from_gui_thread(env).pos
    ELSE get_mouse_position(env)

\* what the OS may answer: every combination of failing and succeeding queries,
\* with a caret and a pointer at different places
CaretEnvs ==
    [foreground_null : BOOLEAN, thread_id : {0, 7}, gui_info_ok : BOOLEAN,
     caret_null : BOOLEAN, blinking : BOOLEAN, to_screen_ok : BOOLEAN,
     caret : {<<12, -3>>}, mouse_ok : BOOLEAN, source_ok : BOOLEAN, event_ok : BOOLEAN,
     mouse : {<<40, 25>>}]

InitCaret ==
    /\ InitProgram
    /\ InitConfig
    /\ parse_in = None
    /\ popup_in = None
    /\ caret_env \in CaretEnvs

\* handle_translate_hotkey, main.rs line 745: caret::get_caret_position()
call_get_caret_position ==
    /\ caret_env # None /\ ~caret_out.called
    /\ caret_out' = [called |-> TRUE, pos |-> get_caret_position(caret_env)]
    /\ UNCHANGED <<popup_in, popup_out, caret_env>>
    /\ UNCHANGED <<hkVars, capVars, raceVars, monVars, parseVars, mainVars>>

CaretNext == call_get_caret_position

\* get_caret_position as a function of what the OS answers
SpecCaret == InitCaret /\ [][CaretNext]_vars

-----------------------------------------------------------------------------
(* Claims about the hotkey manager, checked under SpecHotkey *)

\* C1 (registration safety): when update_hotkey has returned an error because the
\* mnemonic does not parse or because the platform refused the new binding, the
\* binding that was active on entry is still registered, the platform holds what
\* it held on entry, the three fields of the manager are what they were on entry,
\* and is_translate_hotkey accepts an event with the old binding's identifier.
C1_RegistrationSafety ==
    (mgr = "alive" /\ pc = "idle" /\ entry # NoEntry
        /\ ret \in {"err_parse", "err_register"}) =>
       /\ entry.hotkey \in registered
       /\ registered = entry.registered
       /\ translate_hotkey = entry.hotkey
       /\ translate_hotkey_id = entry.id
       /\ current_hotkey = entry.current
       /\ is_translate_hotkey([id |-> hotkey_id(entry.hotkey)])

\* an update whose registration the platform refused has returned
C1_Witness ==
    mgr = "alive" /\ pc = "idle" /\ entry # NoEntry /\ ret = "err_register"

\* C2 (two-phase update ordering): while the manager lives, also between the steps
\* of update_hotkey, the platform holds at least one binding of it; the platform
\* calls of an update are none, register, or register then unregister; and a step
\* of update_hotkey that releases a binding is taken only after register has
\* succeeded, with the new binding held before and after the release.
C2_NeverEmpty ==
    mgr = "alive" => registered # {}

C2_CallOrder ==
    calls \in {<<>>, <<"register">>, <<"register", "unregister">>}

C2_ReleaseStep ==
    (mgr = "alive" /\ mgr' = "alive" /\ (\E h \in registered : h \notin registered')) =>
       /\ pc = "unregister"
       /\ calls = <<"register">>
       /\ new_hotkey \in registered
       /\ new_hotkey \in registered'

C2_TwoPhaseOrdering ==
    [](C2_NeverEmpty /\ C2_CallOrder) /\ [][C2_ReleaseStep]_vars

\* an update to a different binding has gone through both platform calls
C2_Witness ==
    mgr = "alive" /\ pc = "idle" /\ ret = "ok" /\ calls = <<"register", "unregister">>

\* C3 (single consistent binding): after new / update_hotkey has returned, with
\* success or with any error, the platform holds exactly one binding of this
\* manager, and translate_hotkey, translate_hotkey_id and current_hotkey all
\* describe it.
C3_SingleConsistentBinding ==
    (mgr = "alive" /\ pc = "idle") =>
       /\ registered = {translate_hotkey}
       /\ translate_hotkey_id = hotkey_id(translate_hotkey)
       /\ parse_hotkey(current_hotkey).ok
       /\ parse_hotkey(current_hotkey).hotkey = translate_hotkey

\* the tokens of a mnemonic that are not modifier names
KeyTokens(m) ==
    {i \in 1..Len(m) : to_lowercase(trim(m[i])) \notin
        {"ctrl", "control", "alt", "option", "opt", "shift",
         "win", "super", "meta", "cmd", "command"}}

\* m is a well-formed mnemonic of the active binding, whatever its letter case,
\* the order of its modifiers and the spelling of each modifier
DenotesActive(m) ==
    /\ Cardinality(KeyTokens(m)) = 1
    /\ parse_hotkey(m).ok
    /\ parse_hotkey(m).hotkey = translate_hotkey

\* C4 (idempotent update): update_hotkey with a mnemonic that denotes the active
\* binding, after normalization of case, modifier order and modifier spelling,
\* returns success at once and makes no platform call.
C4_IdempotentUpdate ==
    [][\A m \in Mnemonics :
          (update_hotkey_begin(m) /\ DenotesActive(m)) =>
             (pc' = "idle" /\ ret' = "ok" /\ calls' = <<>> /\ registered' = registered)]_vars

-----------------------------------------------------------------------------
(* Claims about the capture session, checked under SpecCapture *)

\* an outcome that is a captured hotkey: neither None nor the empty (cancel) string
IsCaptured(s) == s # None /\ s # <<"">>

\* the modifier tokens of a captured mnemonic: all its tokens but the last
ModTokensOf(s) == {s[i] : i \in 1..(Len(s) - 1)}

\* the tokens of the modifiers that are physically down
ModToken(k) == IF k = "Meta" THEN (IF platform = "windows" THEN "Win" ELSE "Cmd") ELSE k
HeldModTokens(down) == {ModToken(k) : k \in down \cap Mods}

\* the step is the raw key-down of k, observed while the session is Active
ActiveKeyDown(k) == HOTKEY_CAPTURE_ACTIVE /\ ev'.kind = "down" /\ ev'.key = k

\* C5 (bare keys never finalize): in every session, also one started after earlier
\* sessions, the press of a key that is neither a modifier nor Escape, arriving
\* while no modifier is physically down, leaves the session Active with no outcome.
C5_BareKeysNeverFinalize ==
    [][\A k \in MainKeys \ {"Escape"} :
          (ActiveKeyDown(k) /\ phys' \cap Mods = {}) =>
             (HOTKEY_CAPTURE_ACTIVE' /\ CAPTURED_HOTKEY' = None)]_vars

\* C6 (capture finalization): in an Active session that saw a modifier go down and
\* not up again, the press of a key that is no modifier, not Escape and not Tab
\* ends the session with a Captured outcome made of the modifiers that are down
\* and one more token for the key.
C6_CaptureFinalization ==
    [][\A k \in MainKeys \ {"Escape", "Tab"} :
          (ActiveKeyDown(k) /\ session_mods # {}) =>
             /\ ~HOTKEY_CAPTURE_ACTIVE'
             /\ IsCaptured(CAPTURED_HOTKEY')
             /\ Len(CAPTURED_HOTKEY') >= 2
             /\ ModTokensOf(CAPTURED_HOTKEY') = HeldModTokens(phys')]_vars

\* C7 (Escape cancels): an Escape press observed while the session is Active ends
\* it as Cancelled (the empty string), whatever modifiers are down; no Escape
\* press makes a Captured outcome, and no outcome stored or handed to the
\* consumer names Escape as its key.
C7_EscapeStep ==
    /\ ActiveKeyDown("Escape") =>
          (~HOTKEY_CAPTURE_ACTIVE' /\ CAPTURED_HOTKEY' = <<"">>)
    /\ (ev'.kind = "down" /\ ev'.key = "Escape") =>
          CAPTURED_HOTKEY' \in {CAPTURED_HOTKEY, <<"">>}

C7_NoEscapeOutcome ==
    \A s \in {CAPTURED_HOTKEY} \cup {received[i] : i \in 1..Len(received)} :
        IsCaptured(s) => s[Len(s)] \notin {"Escape", "Esc", "VK1B"}

C7_EscapeCancels ==
    []C7_NoEscapeOutcome /\ [][C7_EscapeStep]_vars

\* Escape has cancelled a session while a modifier pressed in it was still down
C7_Witness ==
    /\ ev = [kind |-> "down", key |-> "Escape"]
    /\ session_mods # {}
    /\ hotkey_recording /\ ~HOTKEY_CAPTURE_ACTIVE
    /\ CAPTURED_HOTKEY = <<"">>

\* C8 (Tab is excluded): a Tab press observed as a raw key event while the session
\* is Active leaves it Active with no outcome, whatever modifiers are down, on
\* both backends.
C8_TabExcluded ==
    [][ActiveKeyDown("Tab") =>
          (HOTKEY_CAPTURE_ACTIVE' /\ CAPTURED_HOTKEY' = None)]_vars

\* C9 (held-modifier tracking): while the session is Active a modifier event never
\* ends it; on the hook backend the press sets and the release clears the
\* modifier's bit; and the mnemonic a key press captures lists exactly the
\* modifiers that are down at that moment.
C9_ModifierStep ==
    /\ \A k \in Mods :
          (HOTKEY_CAPTURE_ACTIVE /\ ev'.kind # "none" /\ ev'.key = k) =>
             /\ HOTKEY_CAPTURE_ACTIVE' /\ CAPTURED_HOTKEY' = None
             /\ platform = "windows" =>
                   (CASE k = "Ctrl"  -> HOTKEY_CAPTURE_CTRL'
                      [] k = "Alt"   -> HOTKEY_CAPTURE_ALT'
                      [] k = "Shift" -> HOTKEY_CAPTURE_SHIFT'
                      [] k = "Meta"  -> HOTKEY_CAPTURE_WIN') = (ev'.kind = "down")
    /\ \A k \in MainKeys :
          (ActiveKeyDown(k) /\ IsCaptured(CAPTURED_HOTKEY')) =>
             ModTokensOf(CAPTURED_HOTKEY') = HeldModTokens(phys')

C9_HeldModifierTracking == [][C9_ModifierStep]_vars

\* C10 (outcome consumed exactly once): between one start of a capture session and
\* the next, the consumer's polling loop is handed at most one outcome.
C10_ConsumedOnce == Len(received) <= 1

\* C11 (start clears the prior result): a step of start_hotkey_capture leaves the
\* session Active with no stored outcome, and the consumer of the session is handed
\* no outcome before a key event has been observed after that start.
C11_StartStep ==
    start_hotkey_capture => (HOTKEY_CAPTURE_ACTIVE' /\ CAPTURED_HOTKEY' = None)

C11_StartClearsPriorResult ==
    [][C11_StartStep]_vars /\ [](received # <<>> => key_seen)

\* what the state-sampling path returns for the keys that are down now
PollOutcome == poll_hotkey_capture(Statics, phys).ret

\* what the push path stores for the press of k in a session that has seen the
\* modifiers of down go down
PushOutcome(k, down, os_text) ==
    callback([Statics EXCEPT !.active = TRUE, !.captured = None,
                             !.ctrl = "Ctrl" \in down, !.alt = "Alt" \in down,
                             !.shift = "Shift" \in down, !.win = "Meta" \in down],
             k, TRUE, down, os_text).captured

\* C13 (poll/push equivalence): for every key state an Active session can be
\* sampled in, poll_hotkey_capture finalizes only with a modifier down and never
\* on modifiers alone, returns the cancel outcome when Escape is down, returns
\* nothing when Tab is the only other key down, and for one main key down returns
\* what the push path stores for the press of that key under the same modifiers.
C13_PollPushEquivalence ==
    HOTKEY_CAPTURE_ACTIVE =>
       /\ PollOutcome # None => phys \cap Mods # {}
       /\ phys \cap MainKeys = {} => PollOutcome = None
       /\ "Escape" \in phys => PollOutcome = <<"">>
       /\ phys \cap MainKeys = {"Tab"} => PollOutcome = None
       /\ \A k \in MainKeys \ {"Escape", "Tab"} :
             (phys \cap MainKeys = {k} /\ phys \cap Mods # {}) =>
                \E os_text \in OsTexts : PollOutcome = PushOutcome(k, phys, os_text)

\* the place of a token in the order Ctrl, Alt, Shift, Meta (the Meta key is
\* written Win by the hook and Cmd by the tap); 0 for a token that is no modifier
ModRank(tok) ==
    CASE tok = "Ctrl" -> 1 [] tok = "Alt" -> 2 [] tok = "Shift" -> 3
      [] tok \in {"Meta", "Win", "Cmd"} -> 4 [] OTHER -> 0

\* modifiers in the order Ctrl, Alt, Shift, Meta, each at most once, then one key name
CanonicalOrder(s) ==
    /\ Len(s) >= 1
    /\ ModRank(s[Len(s)]) = 0
    /\ \A i \in 1..(Len(s) - 1) : ModRank(s[i]) > 0
    /\ \A i, j \in 1..(Len(s) - 1) : i < j => ModRank(s[i]) < ModRank(s[j])

\* C29 (canonical output order): every Captured outcome, stored by the push path,
\* returned by the poll path or handed to the consumer, and every string that
\* normalize_hotkey_string returns for the active hotkey, lists its modifiers in
\* the order Ctrl, Alt, Shift, Meta, each at most once, followed by exactly one
\* key name, on both backends.
C29_CanonicalOutputOrder ==
    /\ \A s \in {CAPTURED_HOTKEY} \cup {received[i] : i \in 1..Len(received)} :
          IsCaptured(s) => CanonicalOrder(s)
    /\ (norm_out.called /\ norm_out.ok) => CanonicalOrder(norm_out.value)

\* the names a key can be given: its symbolic name, or the raw-code placeholder
KeyNames(k) ==
    {n.val : n \in {m \in {vk_to_name(Vk(k), t) : t \in OsTexts}
                          \cup {keycode_to_name(Keycode(k))} : m.some}}
      \cup {VkPlaceholder(Vk(k))}

\* C30 (placeholder instead of failure): in an Active session with a modifier held,
\* the press of a key that is no modifier, not Escape and not Tab always ends the
\* session with a Captured outcome, whose last token is the key's name or, when
\* no name can be resolved for the key, its raw-code placeholder; the session is
\* never left Active or without an outcome.
C30_PlaceholderInsteadOfFailure ==
    [][\A k \in MainKeys \ {"Escape", "Tab"} :
          (ActiveKeyDown(k) /\ session_mods # {}) =>
             /\ ~HOTKEY_CAPTURE_ACTIVE'
             /\ IsCaptured(CAPTURED_HOTKEY')
             /\ CAPTURED_HOTKEY'[Len(CAPTURED_HOTKEY')] \in KeyNames(k)]_vars

\* the parser behind update_hotkey on the build
UpdateParses(s) ==
    IF platform = "macos" THEN normalize_hotkey_string(s).ok ELSE parse_hotkey(s).ok

\* C34 (capture output is valid parser input): every Captured mnemonic, stored by
\* the push path, returned by the poll path or handed to apply_captured_hotkey,
\* is accepted by the parser update_hotkey uses on the same build.
C34_CaptureOutputParses ==
    \A s \in {CAPTURED_HOTKEY} \cup {received[i] : i \in 1..Len(received)} :
        IsCaptured(s) => UpdateParses(s)

-----------------------------------------------------------------------------
(* Claims about the paste latch, checked under SpecPaste *)

\* C18 (the paste latch is one-shot and loses nothing): at every moment the latch
\* is set, so that check_ctrl_v_pressed would return true, if and only if V went
\* down with the paste modifier held since the previous read, and the step that
\* reads the latch leaves it clear.
C18_ReadStep == timer_tick => ~CTRL_V_DETECTED'

C18_PasteLatchOneShot ==
    [](CTRL_V_DETECTED <=> chord_unread) /\ [][C18_ReadStep]_vars

\* C32 (paste detection is independent of capture): every press of V observed
\* while Ctrl is held sets the paste latch, whether or not a capture session is
\* Active and whether or not the same press finalizes or cancels the capture.
C32_PasteIndependentOfCapture ==
    [][(ev'.kind = "down" /\ ev'.key = "V" /\ "Ctrl" \in phys) => CTRL_V_DETECTED']_vars

-----------------------------------------------------------------------------
(* Claims about the interleavings of the callback, checked under SpecRace *)

\* C33 (no lost outcome under the start_capture race): once start_hotkey_capture
\* has returned and no callback is running, a session the consumer still believes
\* is recording is Active or has its outcome stored.
C33_NoLostOutcome ==
    (ui_pc = "idle" /\ cb_pc = "idle" /\ hotkey_recording) =>
       (HOTKEY_CAPTURE_ACTIVE \/ CAPTURED_HOTKEY # None)

\* C12 (stop forces Idle without a result): from the return of stop_hotkey_capture
\* to the next start the session is not Active and no outcome is stored, so that
\* get_captured_hotkey returns None, and no step of a key-event callback, also of
\* one that was running while stop_hotkey_capture ran, stores an outcome.
C12_NoOutcomeStep ==
    (stopped /\ stopped') => (CAPTURED_HOTKEY' = CAPTURED_HOTKEY \/ CAPTURED_HOTKEY' = None)

C12_StopForcesIdle ==
    [](stopped => (~HOTKEY_CAPTURE_ACTIVE /\ CAPTURED_HOTKEY = None))
        /\ [][C12_NoOutcomeStep]_vars

-----------------------------------------------------------------------------
(* Claims about the parsers, checked under SpecParse *)

\* a token as the grammar reads it: blanks around it dropped, case folded
Folded(t) == to_lowercase(trim(t))

\* the modifier a token spells, by the synonym sets of the grammar
ModifierClass(t) ==
    CASE Folded(t) \in {"ctrl", "control"}                        -> "CONTROL"
      [] Folded(t) \in {"alt", "option", "opt"}                   -> "ALT"
      [] Folded(t) = "shift"                                      -> "SHIFT"
      [] Folded(t) \in {"win", "super", "meta", "cmd", "command"} -> "META"
      [] OTHER                                                    -> "none"

\* the names of the closed key-name table, for the keys of the model
KeyNameTable == {"q", "t", "v", "tab", "escape", "esc", "insert", "ins", "space"}
IsKeyName(t) == ModifierClass(t) = "none" /\ Folded(t) \in KeyNameTable
IsUnknownName(t) == ModifierClass(t) = "none" /\ Folded(t) \notin KeyNameTable /\ Folded(t) # ""

\* C14 (multiple main keys are rejected): a mnemonic with at least one modifier
\* token and two or more tokens of the key-name table is refused by the parser
\* with the multiple-main-keys error.
C14_MultipleMainKeysRejected ==
    (/\ \E i \in DOMAIN parse_in : ModifierClass(parse_in[i]) # "none"
     /\ Cardinality({i \in DOMAIN parse_in : IsKeyName(parse_in[i])}) >= 2) =>
       /\ parse_out.called => (~parse_out.ok /\ parse_out.err = "MultipleMainKeys")
       /\ norm_out.called => (~norm_out.ok /\ norm_out.err = "MultipleMainKeys")

\* C15 (blank input and missing main key): the empty or blank string is refused
\* with the empty-input error, and a mnemonic of modifier tokens and empty tokens
\* only is refused with the no-main-key error.
C15_BlankAndMissingKey ==
    LET blank == Len(parse_in) = 1 /\ trim(parse_in[1]) = ""
        modifiers_only ==
            /\ \E i \in DOMAIN parse_in : ModifierClass(parse_in[i]) # "none"
            /\ \A i \in DOMAIN parse_in :
                  ModifierClass(parse_in[i]) # "none" \/ trim(parse_in[i]) = ""
    IN /\ parse_out.called =>
            /\ blank => (~parse_out.ok /\ parse_out.err = "Empty")
            /\ modifiers_only => (~parse_out.ok /\ parse_out.err = "NoKey")
       /\ norm_out.called =>
            /\ blank => (~norm_out.ok /\ norm_out.err = "Empty")
            /\ modifiers_only => (~norm_out.ok /\ norm_out.err = "NoKey")

\* C16 (no Hotkey without a modifier or with an unknown key): parse_hotkey refuses
\* a lone key name with the no-modifier error, refuses every mnemonic that holds a
\* name that is neither a modifier nor in the key-name table with the unknown-key
\* error, and every Hotkey it returns has a modifier and one key code of the table.
C16_NoModifierUnknownKey ==
    parse_out.called =>
       /\ (Len(parse_in) = 1 /\ IsKeyName(parse_in[1])) =>
             (~parse_out.ok /\ parse_out.err = "NoModifier")
       /\ (\E i \in DOMAIN parse_in : IsUnknownName(parse_in[i])) =>
             (~parse_out.ok /\ parse_out.err = "UnknownKey")
       /\ parse_out.ok =>
             /\ parse_out.hotkey.mods # {}
             /\ parse_out.hotkey.mods \subseteq {"CONTROL", "ALT", "SHIFT", "META"}
             /\ parse_out.hotkey.key \in {"KeyQ", "KeyT", "KeyV", "Tab", "Escape", "Insert", "Space"}

\* parse_hotkey has refused a lone key, and a name that is in no table
C16_Witness ==
    parse_out.called /\ ~parse_out.ok
        /\ \/ parse_in = <<"Q">> /\ parse_out.err = "NoModifier"
           \/ parse_in = <<"Ctrl", "Banana">> /\ parse_out.err = "UnknownKey"

\* a mnemonic of the grammar: modifier tokens and then one key name
ValidMnemonic(m) ==
    /\ Len(m) >= 2
    /\ IsKeyName(m[Len(m)])
    /\ \A i \in 1..(Len(m) - 1) : ModifierClass(m[i]) # "none"

\* two mnemonics of the grammar that differ in case, order of the modifiers,
\* synonym, repetition of a modifier or blanks only
SameChord(m1, m2) ==
    /\ ValidMnemonic(m1) /\ ValidMnemonic(m2)
    /\ {ModifierClass(m1[i]) : i \in 1..(Len(m1) - 1)}
          = {ModifierClass(m2[i]) : i \in 1..(Len(m2) - 1)}
    /\ Folded(m1[Len(m1)]) = Folded(m2[Len(m2)])

\* C17 (parse normalization): a mnemonic of the grammar is accepted by the parser,
\* and every mnemonic that differs from it in case, modifier order, synonym,
\* repetition or blanks only gives the same result: the same Hotkey with the same
\* identifier from parse_hotkey, the same string from normalize_hotkey_string.
C17_ParseNormalization ==
    ValidMnemonic(parse_in) =>
       /\ parse_out.called =>
             /\ parse_out.ok
             /\ \A m \in ParseInputs : SameChord(parse_in, m) =>
                   /\ parse_hotkey(m).ok
                   /\ parse_hotkey(m).hotkey = parse_out.hotkey
                   /\ hotkey_id(parse_hotkey(m).hotkey) = parse_out.id
       /\ norm_out.called =>
             /\ norm_out.ok
             /\ \A m \in ParseInputs : SameChord(parse_in, m) =>
                   normalize_hotkey_string(m) = [ok |-> TRUE, err |-> "", value |-> norm_out.value]

-----------------------------------------------------------------------------
(* Claims about the keyboard monitor, checked under SpecMonitor *)

\* the installation of pump thread t has failed
InstallFailed(t) == mon_msg[t] # ""

\* C19 (fault single-report): however many pump threads fail to install, and
\* however their reports interleave, at most one message is ever sent on the
\* fault channel.
C19_FaultSingleReport == Len(faults_sent) <= 1

\* two pump threads have failed and returned, and one message was sent
C19_Witness ==
    /\ Len(faults_sent) = 1
    /\ \E t, u \in MonitorThreads :
          /\ t # u
          /\ InstallFailed(t) /\ mon_pc[t] = "exited"
          /\ InstallFailed(u) /\ mon_pc[u] = "exited"

\* C20 (an installation failure is surfaced): on either platform a pump thread
\* whose installation failed returns and stays returned, and from then on a fault
\* notification is in the receiver of the fault channel or has been received by
\* the consumer.
C20_ExitedStep ==
    \A t \in MonitorThreads : mon_pc[t] = "exited" => mon_pc'[t] = "exited"

C20_FailureSurfaced ==
    /\ [](\A t \in MonitorThreads :
            (InstallFailed(t) /\ mon_pc[t] = "exited") =>
               (MONITOR_ERROR_CHANNEL # <<>> \/ alerts # <<>>))
    /\ [][C20_ExitedStep]_vars

\* the pump threads that start_keyboard_monitor has spawned
Spawned == {t \in MonitorThreads : mon_pc[t] # "unspawned"}

\* the pump threads whose interception point is installed
Installed == {t \in MonitorThreads : mon_pc[t] \in {"runloop_source", "pumping"}}

\* C21 (start is idempotent): however often start_keyboard_monitor is called,
\* at most one pump thread is ever spawned and at most one interception point is
\* installed, so that a key transition reaches one callback only.
C21_StartIdempotent == Cardinality(Spawned) <= 1 /\ Cardinality(Installed) <= 1

-----------------------------------------------------------------------------
(* Claims about startup, the hotkey events and shutdown, checked under SpecMain *)

\* the binding the platform holds for the manager is the one config.hotkey names
ConfigAgrees ==
    IF platform = "macos"
    THEN /\ normalize_hotkey_string(config_hotkey).ok
         /\ ACTIVE_HOTKEY = normalize_hotkey_string(config_hotkey).value
    ELSE /\ parse_hotkey(config_hotkey).ok
         /\ translate_hotkey = parse_hotkey(config_hotkey).hotkey
         /\ registered = {translate_hotkey}

\* the binding held is the one of "Alt+Q"
DefaultBound ==
    IF platform = "macos" THEN ACTIVE_HOTKEY = <<"Alt", "Q">>
    ELSE registered = {[mods |-> {"ALT"}, key |-> "KeyQ"]}

\* C22 (startup fallback): when the first HotkeyManager::new of main fails,
\* config.hotkey becomes "Alt+Q" and a startup that then succeeds has bound
\* "Alt+Q"; after every successful startup the binding held is the one that
\* config.hotkey names.
C22_StartupStep ==
    (proc = "loading" /\ proc' # "loading") =>
       /\ first_failed' => config_hotkey' = DEFAULT_HOTKEY
       /\ ~first_failed' => config_hotkey' = config_hotkey
       /\ proc' = "running" => ConfigAgrees'
       /\ (proc' = "running" /\ first_failed') => DefaultBound'

C22_StartupFallback == [][C22_StartupStep]_vars

\* a startup has succeeded with the default after the configured mnemonic failed
C22_Witness ==
    /\ proc = "running" /\ first_failed
    /\ config_hotkey = DEFAULT_HOTKEY /\ DefaultBound
    /\ ret = "ok" /\ HOTKEY_EVENT_CHANNEL = <<>> /\ hotkey_seen = NoHotkeyEvent

\* C23 (no failure is fatal): whatever parsing and the platform answer, at
\* startup and in an update, the process is not ended by the failure.
C23_NoFailureFatal == proc # "failed"

\* C24 (release on shutdown): the step that ends the process, by the return of
\* main or by the tray's Exit, runs the manager's Drop, which asks the platform to
\* release the binding that is active at that moment and no other.
C24_ShutdownStep ==
    (proc = "running" /\ proc' \in {"returned", "exited"} /\ platform # "macos") =>
       /\ mgr' = "dropped"
       /\ registered' \in {registered \ {translate_hotkey}, registered}

C24_ReleaseOnShutdown == [][C24_ShutdownStep]_vars

\* C25 (is_match follows the active binding): the timer callback that receives a
\* hotkey event takes it for the translate hotkey if and only if the event is a
\* press of the binding that is active when it is received, also when the event
\* was queued before an update.
C25_ReceiveStep ==
    (HOTKEY_EVENT_CHANNEL # <<>> /\ HOTKEY_EVENT_CHANNEL' = Tail(HOTKEY_EVENT_CHANNEL)) =>
       (hotkey_seen'.matched <=> Head(HOTKEY_EVENT_CHANNEL).of = ActiveBinding)

C25_MatchFollowsActive == [][C25_ReceiveStep]_vars

\* C35 (the two platform parsers accept the same mnemonics): for every mnemonic,
\* parse_hotkey succeeds if and only if normalize_hotkey_string succeeds.
C35_ParsersAcceptTheSame ==
    (parse_out.called /\ norm_out.called) => (parse_out.ok <=> norm_out.ok)

-----------------------------------------------------------------------------
(* Claims about the locator, checked under SpecPopup and SpecCaret *)

\* C26 (the popup stays on screen): for every cursor, popup size and screen size
\* the box placed at the returned position lies within the screen on both axes.
C26_PopupOnScreen ==
    popup_out.called =>
       /\ 0 <= popup_out.pos[1]
       /\ popup_out.pos[1] + popup_in.popup_width <= popup_in.screen_width
       /\ 0 <= popup_out.pos[2]
       /\ popup_out.pos[2] + popup_in.popup_height <= popup_in.screen_height

\* the centred x and the y above the cursor
CentredX == popup_in.cursor_x - (popup_in.popup_width \div 2)
AboveY == popup_in.cursor_y - popup_in.popup_height - 10

\* the parts of C27 about the centred x, the placement above the cursor and the
\* 1920x1080 example
C27_CentredAndAbove ==
    /\ (0 <= CentredX /\ CentredX + popup_in.popup_width <= popup_in.screen_width) =>
          popup_out.pos[1] = CentredX
    /\ (0 <= AboveY /\ AboveY + popup_in.popup_height <= popup_in.screen_height) =>
          popup_out.pos[2] = AboveY
    /\ (popup_in.screen_width = 1920 /\ popup_in.cursor_y = 540) =>
          popup_out.pos = <<770, 310>>

\* C27 as stated (above, else below): x is the centred one whenever that keeps the
\* box within the horizontal bounds, y is cursor_y - popup_height - 10 whenever
\* that is not negative and the box fits, and whenever there is no room above, the
\* returned y is greater than cursor_y.
C27_AboveElseBelow ==
    popup_out.called =>
       /\ C27_CentredAndAbove
       /\ AboveY < 0 => popup_out.pos[2] > popup_in.cursor_y

\* C27 amended: as stated, but with no room above the box is placed 20 below the
\* cursor only when it then ends within the screen; otherwise it is moved up to
\* end at the bottom edge, which can put it at or above the cursor.
C27_AboveElseBelowAmended ==
    popup_out.called =>
       /\ C27_CentredAndAbove
       /\ AboveY < 0 =>
             popup_out.pos[2] =
                IF popup_in.cursor_y + 20 + popup_in.popup_height > popup_in.screen_height
                THEN popup_in.screen_height - popup_in.popup_height
                ELSE popup_in.cursor_y + 20

\* the cursor 5 below the top of the 1920x1080 screen: the box is placed below it
C27_Witness ==
    /\ popup_out.called
    /\ popup_in.screen_height = 1080 /\ popup_in.cursor_y = 5
    /\ popup_out.pos = <<770, 25>>

\* the foreground window reports a visible caret that converts to screen coordinates
CaretReported ==
    /\ platform = "windows"
    /\ ~caret_env.foreground_null /\ caret_env.thread_id # 0 /\ caret_env.gui_info_ok
    /\ ~caret_env.caret_null /\ caret_env.blinking /\ caret_env.to_screen_ok

\* the pointer position is available
PointerAvailable ==
    IF platform = "macos" THEN caret_env.source_ok /\ caret_env.event_ok
    ELSE caret_env.mouse_ok

\* C28 (caret_position degrades in a fixed order): get_caret_position returns the
\* caret's screen coordinate when a visible caret is reported, otherwise the
\* pointer position when that is available, otherwise (0, 0); whatever queries
\* fail, what it returns is a coordinate.
C28_CaretFallbackOrder ==
    caret_out.called =>
       /\ caret_out.pos \in Int \X Int
       /\ caret_out.pos = IF CaretReported THEN caret_env.caret
                          ELSE IF PointerAvailable THEN caret_env.mouse
                          ELSE <<0, 0>>

\* every query has failed and the origin was returned
C28_Witness ==
    /\ caret_out.called /\ platform = "windows"
    /\ caret_env.foreground_null /\ ~caret_env.mouse_ok
    /\ caret_out.pos = <<0, 0>>

-----------------------------------------------------------------------------
(* claims about the settings window, the tap callback and the binding *)

\* a raw key transition: the set of keys that are down changes
KeyTransition == phys' # phys

\* C31 (the raw key-event source never interprets the registered hotkey): a key
\* transition observed while no capture session is Active changes nothing but the
\* paste latch and the Ctrl-held tracking, and sends no hotkey-fired notification
C31_RawSourceNeverFires ==
    [][(KeyTransition /\ ~HOTKEY_CAPTURE_ACTIVE) =>
          /\ HOTKEY_EVENT_CHANNEL' = HOTKEY_EVENT_CHANNEL
          /\ UNCHANGED <<HOTKEY_CAPTURE_ACTIVE, CAPTURED_HOTKEY, HOTKEY_CAPTURE_CTRL,
                         HOTKEY_CAPTURE_ALT, HOTKEY_CAPTURE_SHIFT, HOTKEY_CAPTURE_WIN,
                         hotkey_recording, ACTIVE_HOTKEY, config_hotkey, saved_hotkey,
                         win_hotkey, hkVars>>]_vars

\* the chords of TapKeys that a capture session of the macos build records
CapturableChords ==
    {c \in [key : TapKeys \ Mods, mods : SUBSET (TapKeys \cap Mods)] :
        IsCaptured(PushOutcome(c.key, c.mods \cup {c.key}, ""))}

\* set_active_hotkey has succeeded with the mnemonic a session records for c
BoundTo(c) ==
    LET n == normalize_hotkey_string(PushOutcome(c.key, c.mods \cup {c.key}, ""))
    IN n.ok /\ ACTIVE_HOTKEY = n.value

\* the step is a key-down of a key that is no modifier
KeyDownStep == ev'.kind = "down" /\ ev'.key \notin Mods

\* the step sends exactly one hotkey-fired notification
OneSent == HOTKEY_EVENT_CHANNEL' = Append(HOTKEY_EVENT_CHANNEL, [id |-> 0, of |-> ACTIVE_HOTKEY])

\* C36 (macos capture-then-fire consistency): with the active mnemonic set to what
\* a capture session records for a chord, and no session Active, a key-down of
\* that chord (same key, same modifiers) sends exactly one notification and a
\* key-down of any other chord sends none
C36_CaptureThenFire ==
    [][(KeyDownStep /\ ~HOTKEY_CAPTURE_ACTIVE) =>
          \A c \in CapturableChords :
             BoundTo(c) =>
                IF ev'.key = c.key /\ phys' \cap Mods = c.mods
                THEN OneSent
                ELSE UNCHANGED HOTKEY_EVENT_CHANNEL]_vars

\* a session has recorded Shift+Q, the timer has applied it and the chord fired
C36_Witness ==
    /\ platform = "macos"
    /\ ACTIVE_HOTKEY = <<"Shift", "Q">>
    /\ win_hotkey = <<"Shift", "Q">>
    /\ ev = [kind |-> "down", key |-> "Q"]
    /\ phys = {"Shift", "Q"}
    /\ HOTKEY_EVENT_CHANNEL = <<[id |-> 0, of |-> <<"Shift", "Q">>]>>

\* the mnemonic of the chord the step presses, as the tap callback builds it
C37_ActiveChordDown ==
    /\ KeyDownStep
    /\ \E c \in CapturableChords :
          BoundTo(c) /\ ev'.key = c.key /\ phys' \cap Mods = c.mods

\* C37 (macos capture suppresses firing): while a session is Active no key event
\* sends a notification; the active chord pressed in an Active session becomes the
\* Captured outcome and ends the session; and the first key-down of the active
\* chord after the session has left Active sends a notification, even before the
\* timer has read the outcome
C37_CaptureSuppressesFiring ==
    [][/\ HOTKEY_CAPTURE_ACTIVE => Len(HOTKEY_EVENT_CHANNEL') <= Len(HOTKEY_EVENT_CHANNEL)
       /\ (HOTKEY_CAPTURE_ACTIVE /\ ev'.kind # "none") => UNCHANGED HOTKEY_EVENT_CHANNEL
       /\ (HOTKEY_CAPTURE_ACTIVE /\ C37_ActiveChordDown) =>
             CAPTURED_HOTKEY' = ACTIVE_HOTKEY /\ ~HOTKEY_CAPTURE_ACTIVE'
       /\ (~HOTKEY_CAPTURE_ACTIVE /\ hotkey_recording /\ C37_ActiveChordDown) => OneSent]_vars

\* the active chord was captured without firing, then pressed again before the
\* timer ran, and fired
C37_Witness ==
    /\ platform = "macos"
    /\ hotkey_recording /\ ~HOTKEY_CAPTURE_ACTIVE
    /\ CAPTURED_HOTKEY = ACTIVE_HOTKEY
    /\ ACTIVE_HOTKEY = <<"Ctrl", "Q">>
    /\ ev = [kind |-> "down", key |-> "Q"]
    /\ HOTKEY_EVENT_CHANNEL = <<[id |-> 0, of |-> <<"Ctrl", "Q">>]>>

\* the timer callback has handed exactly one outcome to apply_captured_hotkey
OneOutcomeApplied ==
    /\ mgr \in {"alive", "macos"}
    /\ Len(received') = Len(received) + 1

\* the outcome the step has applied
AppliedOutcome == received'[Len(received')]

\* C38 (applying a capture outcome keeps binding and configuration in step): a
\* Cancelled outcome changes neither the registered binding nor the
\* configuration; a Captured outcome whose update fails leaves the binding, the
\* configuration and the displayed mnemonic as they were; and config.hotkey gets
\* the captured mnemonic only when update_hotkey has succeeded
C38_ApplyKeepsInStep ==
    [][OneOutcomeApplied =>
          /\ AppliedOutcome = <<"">> =>
                UNCHANGED <<registered, translate_hotkey, translate_hotkey_id,
                            current_hotkey, ACTIVE_HOTKEY, config_hotkey, saved_hotkey>>
          /\ (IsCaptured(AppliedOutcome) /\ ret' # "ok") =>
                UNCHANGED <<registered, translate_hotkey, translate_hotkey_id,
                            current_hotkey, ACTIVE_HOTKEY, config_hotkey, saved_hotkey,
                            win_hotkey>>
          /\ config_hotkey' # config_hotkey =>
                ret' = "ok" /\ config_hotkey' = AppliedOutcome]_vars

====
